---- MODULE Spec2Model ----
(***************************************************************************)
(* Model of ba_api's REST rate-limit coordinator                           *)
(* (src/src/client/rate_limit.rs): the four counters behind one            *)
(* tokio RwLock, the callers' acquire_permits / set_permits / update,      *)
(* and the background run_tick task.                                       *)
(*                                                                         *)
(* Time is the wall clock in milliseconds.  No critical section of the     *)
(* module awaits while it holds the write guard, so each one is a single   *)
(* step; every `.await` (the lock, yield_now, the ticker) separates steps. *)
(***************************************************************************)
EXTENDS Integers, Sequences, FiniteSets, TLC

(* ---------------------------------------------------------------------- *)
(* Bounds of the model                                                     *)
(* ---------------------------------------------------------------------- *)

\* number of calls the application makes in one run
MaxCalls == 3

\* number of times the ticker fires in one run
MaxTicks == 1

\* number of subscribe / unsubscribe calls made on a websocket session
MaxSubCalls == 2

\* number of connections a websocket session makes in one run
MaxConns == 3

\* number of failed connection attempts of one reconnection
MaxAttempts == 1

\* number of text frames a websocket session receives in one run
MaxFrames == 2

\* number of close signals the application sends to a websocket session
MaxCloses == 2

\* number of calls that change the set of a session that also reads frames
MaxLateCalls == 1

\* number of calls the application makes on a socket-API session
MaxApiCalls == 3

\* number of session.status requests one polling loop sends
MaxPolls == 2

\* u32 is modelled with this many bits (TLC integers are 32-bit signed, so
\* 2^32 itself cannot be represented); every limit and input fits
WordBits == 18

\* the application's tasks: all of them acquire permits; those of Setters
\* also make the calls that follow a response (set_permits) and the
\* construction of the client (update)
Callers == {"t1", "t2"}

Setters == {"t1"}

TickTask == "tick"

Tasks == Callers \cup {TickTask}

(* ---------------------------------------------------------------------- *)
(* Program constants                                                       *)
(* ---------------------------------------------------------------------- *)

DefaultWeightLimit == 6000

DefaultOrderSec10Limit == 50

DefaultOrderDay1Limit == 160000

DefaultRawRequestsLimit == 61000

\* tokio::time::Duration::from_secs(10), in milliseconds
TickIntvMs == 10000

SecMs == 1000

MinuteMs == 60000

HourMs == 3600000

DayMs == 86400000

Dims == {"weight", "order_sec10", "order_day1", "raw_requests"}

\* Option<T>: None is the empty set, Some(x) the singleton
None == {}

Some(x) == {x}

Unwrap(o) == CHOOSE x \in o : TRUE

Max(a, b) == IF a >= b THEN a ELSE b

Min(S) == CHOOSE x \in S : \A y \in S : x <= y

(* ---------------------------------------------------------------------- *)
(* u32 arithmetic                                                          *)
(* ---------------------------------------------------------------------- *)

U32Modulus == 2 ^ WordBits

\* a - b on u32: `ok` is false when the subtraction underflows; `val` is the
\* wrapped result a build without overflow checks stores
SubU32(a, b) == [ok |-> a >= b, val |-> (a - b) % U32Modulus]

(* ---------------------------------------------------------------------- *)
(* Clock helpers                                                           *)
(* ---------------------------------------------------------------------- *)

hour(t) == (t % DayMs) \div HourMs

minute(t) == (t % HourMs) \div MinuteMs

second(t) == (t % MinuteMs) \div SecMs

\* (now_epoch - now_epoch % 10_000) + 10_000
next_sec10_epoch(now_epoch) == (now_epoch - (now_epoch % TickIntvMs)) + TickIntvMs

(* ---------------------------------------------------------------------- *)
(* Inputs                                                                  *)
(* ---------------------------------------------------------------------- *)

\* the instants at which the client is constructed: 5.5 s before midnight,
\* before a plain 10-second boundary, before a whole minute, and before a
\* 5-minute boundary
StartTimes ==
    { DayMs - 5500, DayMs + TickIntvMs - 5500, DayMs + MinuteMs - 5500,
      DayMs + 5 * MinuteMs - 5500 }

\* delay (ms) between a 10-second boundary and the instant run_tick reads the clock
TickLagMs == 3

\* offset inside a 10-second window to which the clock may advance
MidWindowMs == 4500

\* weights a request may declare
LimitParams ==
    { [kind |-> "Weight", n |-> 4000], [kind |-> "Order", n |-> 1],
      [kind |-> "Both", n |-> 1] }

\* Date headers a response may carry at wall-clock time t: Some(whole seconds),
\* the current second or a second of the previous 10-second window, or None
\* for a header that is missing or malformed
CurrentDate(t) == Some(t \div SecMs)

StaleDate(t) == Some((t \div SecMs) - 10)

\* the usage headers (x-mbx-used-weight-1m, x-mbx-order-count-10s,
\* x-mbx-order-count-1d) a response may carry
Hdr(date, w, s, d) == [date |-> date, weight |-> w, order_sec10 |-> s, order_day1 |-> d]

\* the responses that may arrive at wall-clock time t: usage within the
\* limits (the order counts used up), the same with a late Date, one without
\* a usable Date, and a used weight above the limit (the venue goes on
\* counting the requests it rejects)
Responses(t) ==
    { Hdr(CurrentDate(t), Some(5000), Some(50), Some(160000)),
      Hdr(StaleDate(t), Some(5000), Some(50), Some(160000)),
      Hdr(None, Some(5000), None, None),
      Hdr(CurrentDate(t), Some(7000), None, None) }

RL(type, interval, limit) == [rate_limit_type |-> type, interval |-> interval, limit |-> limit]

\* exchange_info.rate_limits lists the venue may advertise
ExchangeInfos ==
    { << RL("RequestWeight", "Minute", 1200), RL("Orders", "Day", 200000),
         RL("RawRequests", "Minute", 1) >> }

(* ---------------------------------------------------------------------- *)
(* State                                                                   *)
(* ---------------------------------------------------------------------- *)

VARIABLES
    inner,            \* RestApiRateLimitsInner: dimension -> [limit, remain, reset_datetime]
    pc,               \* each task's position
    arg,              \* each caller's arguments of the call in progress
    queue,            \* run_tick: the resets still to do in the iteration in progress
    tick_at,          \* run_tick: the clock value read by the iteration in progress
    now,              \* wall clock (ms)
    overflow_checks,  \* build profile: TRUE panics on u32 overflow, FALSE wraps
    calls,            \* calls made so far
    ticks,            \* ticks fired so far
    ret,              \* the critical section a caller has just run, if the last step was one
    client,           \* the application's handles of the client: "held" or "dropped"
    rest,             \* RestConn::rest_req: the call in progress and what it has done
    ws,               \* a market-stream session (WS and the tasks that use it)
    api               \* a socket-API session (WsClient over ChannelPath::Api) and its server

vars == << inner, pc, arg, queue, tick_at, now, overflow_checks, calls, ticks, ret,
           client, rest, ws, api >>

\* the state of the rate limiter and of its tasks
limiter == << inner, pc, arg, queue, tick_at, now, overflow_checks, calls, ticks, ret >>

NoArg == [op |-> "none"]

\* no caller's critical section was the last step
NoRet == [op |-> "none"]

\* RestApiRateLimitInfo::new
NewInfo(limit, t) == [limit |-> limit, remain |-> limit, reset_datetime |-> t]

\* RestApiRateLimitsInner::default
DefaultInner(t) ==
    [weight       |-> NewInfo(DefaultWeightLimit, t),
     order_sec10  |-> NewInfo(DefaultOrderSec10Limit, t),
     order_day1   |-> NewInfo(DefaultOrderDay1Limit, t),
     raw_requests |-> NewInfo(DefaultRawRequestsLimit, t)]

\* RestApiRateLimits::new at one of the instants of `starts`: default
\* counters, tick task spawned
InitAt(starts) ==
    /\ now \in starts
    /\ inner = DefaultInner(now)
    /\ pc = [t \in Tasks |-> IF t = TickTask THEN "tick_wait" ELSE "idle"]
    /\ arg = [t \in Callers |-> NoArg]
    /\ queue = << >>
    /\ tick_at = now
    /\ overflow_checks \in BOOLEAN
    /\ calls = 0
    /\ ticks = 0
    /\ ret = NoRet

\* no request of rest_req is in progress
NoRest == [pc |-> "none"]

\* no websocket session is open
NoSession == [pc |-> "none"]

\* the client is held by the application, which has made no request and has
\* opened no websocket session
Quiet == client = "held" /\ rest = NoRest /\ ws = NoSession /\ api = NoSession

Init == InitAt(StartTimes) /\ Quiet

\* the positions at which a call is over (returned, or unwound by a panic)
Over == {"idle", "panicked"}

\* the positions of a call of acquire_permits that has not returned
Pending == {"acq_lock", "acq_yield"}

\* caller t leaves a critical section entered in state `inner` for position
\* `next`; the arguments of a call that is over are dropped.  `ret` records
\* the call, the state its critical section started from and how it ended
Goto(t, next) ==
    /\ pc' = [pc EXCEPT ![t] = next]
    /\ arg' = IF next \in Over THEN [arg EXCEPT ![t] = NoArg] ELSE arg
    /\ ret' = [op |-> arg[t].op, t |-> t, arg |-> arg[t], entry |-> inner, next |-> next]

(* ---------------------------------------------------------------------- *)
(* acquire_permits                                                         *)
(* ---------------------------------------------------------------------- *)

\* match limit_param { Weight(n) => (n, false), Order(n) | Both(n) => (n, true) }
order_flag(limit_param) == limit_param.kind \in {"Order", "Both"}

\* the check of the branch without order_flag, applied to every call: what
\* the loop would test if the order counts were left out of the condition
SufficientWeightOnly(in, n, oflag) ==
    /\ in.weight.remain >= n
    /\ in.raw_requests.remain >= 1

\* the `if` conditions of the loop body
Sufficient(in, n, oflag) ==
    IF oflag
    THEN /\ in.weight.remain >= n
         /\ in.raw_requests.remain >= 1
         /\ in.order_sec10.remain >= 1
         /\ in.order_day1.remain >= 1
    ELSE /\ in.weight.remain >= n
         /\ in.raw_requests.remain >= 1

\* the statements of the order_flag branch, run for every call
ConsumeOrderAlways(oflag) == << "weight", "raw_requests", "order_sec10", "order_day1" >>

\* the dimensions the taken branch decrements, in the order of its statements
ConsumeOrder(oflag) ==
    IF oflag
    THEN << "weight", "raw_requests", "order_sec10", "order_day1" >>
    ELSE << "weight", "raw_requests" >>

\* `-= 1` on every dimension, the weight included
CostOne(d, n) == 1

\* the units one call takes from dimension d
Cost(d, n) == IF d = "weight" THEN n ELSE 1

\* the statements `inner.<d>.remain -= k` of the taken branch that underflow
\* when run from `in`: the conditions of the branch are on `in` itself, and
\* every statement is on a dimension of its own
Underflows(in, ds, n) == {i \in DOMAIN ds : ~SubU32(in[ds[i]].remain, Cost(ds[i], n)).ok}

\* the number of statements of the taken branch that run: all of them, or,
\* when overflow checks are on, those before the first that underflows
Executed(in, ds, n) ==
    IF overflow_checks /\ Underflows(in, ds, n) # {}
    THEN Min(Underflows(in, ds, n)) - 1
    ELSE Len(ds)

\* the counters after the first k statements `inner.<d>.remain -= ..` of ds
Consume(in, ds, n, k) ==
    [d \in Dims |->
        IF \E i \in 1..k : ds[i] = d
        THEN [in[d] EXCEPT !.remain = SubU32(in[d].remain, Cost(d, n)).val]
        ELSE in[d]]

\* one iteration of a loop that takes the raw request before it looks at the
\* other counters
acquire_body_eager(in, n, oflag) ==
    IF Sufficient(in, n, oflag)
    THEN [inner |-> Consume(in, ConsumeOrder(oflag), n, Len(ConsumeOrder(oflag))),
          panic |-> FALSE, taken |-> TRUE]
    ELSE [inner |-> Consume(in, << "raw_requests" >>, n, IF in.raw_requests.remain >= 1 THEN 1 ELSE 0),
          panic |-> FALSE, taken |-> FALSE]

\* one iteration of the loop, from the write guard obtained to the guard
\* dropped: [inner, panic, taken] where `taken` tells that the branch with
\* `break` ran and `panic` that a subtraction of it panicked
acquire_body(in, n, oflag) ==
    IF Sufficient(in, n, oflag)
    THEN [inner |-> Consume(in, ConsumeOrder(oflag), n, Executed(in, ConsumeOrder(oflag), n)),
          panic |-> Executed(in, ConsumeOrder(oflag), n) < Len(ConsumeOrder(oflag)),
          taken |-> TRUE]
    ELSE [inner |-> in, panic |-> FALSE, taken |-> FALSE]

\* the call is made
AcquireCall(t, limit_param) ==
    /\ pc[t] = "idle"
    /\ calls < MaxCalls
    /\ calls' = calls + 1
    /\ arg' = [arg EXCEPT ![t] = [op |-> "acquire_permits", n |-> limit_param.n,
                                  order_flag |-> order_flag(limit_param),
                                  yielded |-> FALSE]]
    /\ pc' = [pc EXCEPT ![t] = "acq_lock"]
    /\ ret' = NoRet
    /\ UNCHANGED << inner, queue, tick_at, now, overflow_checks, ticks >>

\* self.inner.write().await completes and the loop body runs: the call
\* returns, or drops the guard and goes on to yield_now
AcquireTry(t) ==
    /\ pc[t] = "acq_lock"
    /\ LET r == acquire_body(inner, arg[t].n, arg[t].order_flag)
       IN /\ inner' = r.inner
          /\ Goto(t, IF r.panic THEN "panicked" ELSE IF r.taken THEN "idle" ELSE "acq_yield")
    /\ UNCHANGED << queue, tick_at, now, overflow_checks, calls, ticks >>

\* tokio::task::yield_now().await returns and the loop starts over; `yielded`
\* records that the call has waited
AcquireYield(t) ==
    /\ pc[t] = "acq_yield"
    /\ pc' = [pc EXCEPT ![t] = "acq_lock"]
    /\ arg' = [arg EXCEPT ![t].yielded = TRUE]
    /\ ret' = NoRet
    /\ UNCHANGED << inner, queue, tick_at, now, overflow_checks, calls, ticks >>

acquire_permits(t) ==
    \/ \E p \in LimitParams : AcquireCall(t, p)
    \/ AcquireTry(t)
    \/ AcquireYield(t)

(* ---------------------------------------------------------------------- *)
(* set_permits                                                             *)
(* ---------------------------------------------------------------------- *)

\* response_date.to_dt_east0("%a, %d %b %Y %T %Z"): a Date header has whole
\* seconds; a missing or malformed one is an Err
to_dt_east0(date) ==
    IF date = None THEN [ok |-> FALSE, dt |-> 0] ELSE [ok |-> TRUE, dt |-> Unwrap(date) * SecMs]

\* match ... { Ok(dt) => dt, Err(_) => now0() }
response_datetime(date, t) == IF to_dt_east0(date).ok THEN to_dt_east0(date).dt ELSE t

\* set_permits without the comparison of the two instants
AlwaysAfterReset(info, response_date) == TRUE

\* the guard `inner.<d>.reset_datetime < response_date`
AfterReset(info, response_date) == info.reset_datetime < response_date

\* let used = (limit - remain).max(n); remain = limit - used;
\* `panic` tells that one of the two subtractions underflows
set_remain(info, n) ==
    LET a == SubU32(info.limit, info.remain)
        used == Max(a.val, n)
        b == SubU32(info.limit, used)
    IN [panic |-> ~a.ok \/ ~b.ok, remain |-> b.val]

\* the blocks of set_permits, in the order of the code
SetOrder == << "weight", "order_sec10", "order_day1" >>

\* if inner.<d>.reset_datetime < response_date { if let Some(n) = <d>_used {
\* the block of dimension d runs its two statements
Applies(in, d, a) == AfterReset(in[d], a.response_date) /\ a[d] # None

\* the blocks that underflow when run from `in` (each block reads and writes
\* its own dimension only)
SetUnderflows(in, a) ==
    {i \in DOMAIN SetOrder :
        Applies(in, SetOrder[i], a) /\ set_remain(in[SetOrder[i]], Unwrap(a[SetOrder[i]])).panic}

\* the number of blocks that run to their end: all of them, or, when overflow
\* checks are on, those before the first that underflows
SetExecuted(in, a) ==
    IF overflow_checks /\ SetUnderflows(in, a) # {}
    THEN Min(SetUnderflows(in, a)) - 1
    ELSE Len(SetOrder)

\* the critical section of set_permits: [inner, panic]
set_permits_body(in, a) ==
    [inner |->
        [d \in Dims |->
            IF \E i \in 1..SetExecuted(in, a) : SetOrder[i] = d /\ Applies(in, d, a)
            THEN [in[d] EXCEPT !.remain = set_remain(in[d], Unwrap(a[d])).remain]
            ELSE in[d]],
     panic |-> SetExecuted(in, a) < Len(SetOrder)]

\* the call is made and the Date header parsed
SetPermitsCall(t, resp) ==
    /\ pc[t] = "idle"
    /\ calls < MaxCalls
    /\ calls' = calls + 1
    /\ arg' = [arg EXCEPT ![t] = [op |-> "set_permits",
                                  response_date |-> response_datetime(resp.date, now),
                                  weight |-> resp.weight,
                                  order_sec10 |-> resp.order_sec10,
                                  order_day1 |-> resp.order_day1]]
    /\ pc' = [pc EXCEPT ![t] = "set_lock"]
    /\ ret' = NoRet
    /\ UNCHANGED << inner, queue, tick_at, now, overflow_checks, ticks >>

\* self.inner.write().await completes and the three blocks run
SetPermitsBody(t) ==
    /\ pc[t] = "set_lock"
    /\ LET r == set_permits_body(inner, arg[t])
       IN /\ inner' = r.inner
          /\ Goto(t, IF r.panic THEN "panicked" ELSE "idle")
    /\ UNCHANGED << queue, tick_at, now, overflow_checks, calls, ticks >>

set_permits(t) ==
    \/ \E resp \in Responses(now) : SetPermitsCall(t, resp)
    \/ SetPermitsBody(t)

(* ---------------------------------------------------------------------- *)
(* update                                                                  *)
(* ---------------------------------------------------------------------- *)

\* limits.iter().find(pred).map(|x| x.limit)
\* hits: the positions of the elements that satisfy the closure
FindLimit(limits, hits) == IF hits = {} THEN None ELSE Some(limits[Min(hits)].limit)

IsWeight(x) == x.rate_limit_type = "RequestWeight"

IsOrderSec10(x) == x.rate_limit_type = "Orders" /\ x.interval = "Second"

IsOrderDay1(x) == x.rate_limit_type = "Orders" /\ x.interval = "Day"

IsRawRequests(x) == x.rate_limit_type = "RawRequests"

\* the four limits update() extracts before taking the lock
AdvertisedLimits(limits) ==
    [weight       |-> FindLimit(limits, {i \in DOMAIN limits : IsWeight(limits[i])}),
     order_sec10  |-> FindLimit(limits, {i \in DOMAIN limits : IsOrderSec10(limits[i])}),
     order_day1   |-> FindLimit(limits, {i \in DOMAIN limits : IsOrderDay1(limits[i])}),
     raw_requests |-> FindLimit(limits, {i \in DOMAIN limits : IsRawRequests(limits[i])})]

\* inner.<d>.rate_limit.limit = <d>.unwrap_or_default()  for the four
apply_limits_or_default(in, adv) ==
    [d \in Dims |-> [in[d] EXCEPT !.limit = IF adv[d] = None THEN 0 ELSE Unwrap(adv[d])]]

\* if let Some(limit) = <d> { inner.<d>.rate_limit.limit = limit; }  for the four
apply_limits(in, adv) ==
    [d \in Dims |-> IF adv[d] = None THEN in[d] ELSE [in[d] EXCEPT !.limit = Unwrap(adv[d])]]

\* the call is made and the advertised limits extracted
UpdateCall(t, limits) ==
    /\ pc[t] = "idle"
    /\ calls < MaxCalls
    /\ calls' = calls + 1
    /\ arg' = [arg EXCEPT ![t] = [op |-> "update", limits |-> AdvertisedLimits(limits)]]
    /\ pc' = [pc EXCEPT ![t] = "upd_lock"]
    /\ ret' = NoRet
    /\ UNCHANGED << inner, queue, tick_at, now, overflow_checks, ticks >>

\* self.inner.write().await completes and the four assignments run
UpdateBody(t) ==
    /\ pc[t] = "upd_lock"
    /\ inner' = apply_limits(inner, arg[t].limits)
    /\ Goto(t, "idle")
    /\ UNCHANGED << queue, tick_at, now, overflow_checks, calls, ticks >>

update(t) ==
    \/ \E limits \in ExchangeInfos : UpdateCall(t, limits)
    \/ UpdateBody(t)

(* ---------------------------------------------------------------------- *)
(* run_tick                                                                *)
(* ---------------------------------------------------------------------- *)

\* the resets one iteration of the loop performs, in order, for the (h, m, s)
\* read from the clock
TickPlan(h, m, s) ==
    IF s % 10 = 0
    THEN IF h = 0 /\ m = 0 /\ s = 0
         THEN << "weight", "order_sec10", "order_day1", "raw_requests" >>
         ELSE IF m % 5 = 0 /\ s = 0
              THEN << "raw_requests" >>
              ELSE IF s = 0
                   THEN << "weight" >>
                   ELSE << "order_sec10" >>
    ELSE << >>

\* the plan of the iteration that read the clock at t
PlanAt(t) == TickPlan(hour(t), minute(t), second(t))

\* reset_permits without `self.remain = self.rate_limit.limit`
reset_datetime_only(info, t) == [info EXCEPT !.reset_datetime = t]

\* RestApiRateLimitInfo::reset_permits
reset_permits(info, t) == [info EXCEPT !.remain = info.limit, !.reset_datetime = t]

\* ticker.tick().await completes at a 10-second boundary; the clock is read,
\* t, and the branch chosen; k is the number of ticks fired
TickAt(t, k) ==
    /\ pc[TickTask] = "tick_wait"
    /\ ticks' = k
    /\ now' = t
    /\ tick_at' = now'
    /\ queue' = PlanAt(now')
    /\ pc' = [pc EXCEPT ![TickTask] = IF queue' = << >> THEN "tick_wait" ELSE "reset"]
    /\ ret' = NoRet
    /\ UNCHANGED << inner, arg, overflow_checks, calls >>

\* the tick that follows `now`, counted
Tick == TickAt(next_sec10_epoch(now) + TickLagMs, ticks + 1)

\* the ticks of a bounded run
TickFire == ticks < MaxTicks /\ Tick

\* self.reset_<d>_permits().await: the write guard is obtained, the dimension
\* reset, the guard dropped
ResetStep ==
    /\ pc[TickTask] = "reset"
    /\ inner' = [inner EXCEPT ![Head(queue)] = reset_permits(@, now)]
    /\ queue' = Tail(queue)
    /\ pc' = [pc EXCEPT ![TickTask] = IF queue' = << >> THEN "tick_wait" ELSE "reset"]
    /\ ret' = NoRet
    /\ UNCHANGED << arg, tick_at, now, overflow_checks, calls, ticks >>

run_tick ==
    \/ TickFire
    \/ ResetStep

\* the wall clock advances inside the current 10-second window
Elapse ==
    /\ now < (now - (now % TickIntvMs)) + MidWindowMs
    /\ now' = (now - (now % TickIntvMs)) + MidWindowMs
    /\ ret' = NoRet
    /\ UNCHANGED << inner, pc, arg, queue, tick_at, overflow_checks, calls, ticks >>

\* what is not the rate limiter
others == << client, rest, ws, api >>

\* the future of a pending acquire_permits is dropped at one of its two
\* suspension points (self.inner.write().await, yield_now().await): the guard
\* is not held at either
AcquireCancel(t) ==
    /\ pc[t] \in Pending
    /\ pc' = [pc EXCEPT ![t] = "idle"]
    /\ arg' = [arg EXCEPT ![t] = NoArg]
    /\ ret' = [op |-> "cancel", t |-> t, arg |-> arg[t], entry |-> inner, next |-> "idle"]
    /\ UNCHANGED << inner, queue, tick_at, now, overflow_checks, calls, ticks >>

Next ==
    \/ \E t \in Callers : \E p \in LimitParams : AcquireCall(t, p) /\ UNCHANGED others
    \/ \E t \in Callers : AcquireTry(t) /\ UNCHANGED others
    \/ \E t \in Callers : AcquireYield(t) /\ UNCHANGED others
    \/ \E t \in Callers : AcquireCancel(t) /\ UNCHANGED others
    \/ \E t \in Setters : \E resp \in Responses(now) : SetPermitsCall(t, resp) /\ UNCHANGED others
    \/ \E t \in Setters : SetPermitsBody(t) /\ UNCHANGED others
    \/ \E t \in Setters : \E limits \in ExchangeInfos : UpdateCall(t, limits) /\ UNCHANGED others
    \/ \E t \in Setters : UpdateBody(t) /\ UNCHANGED others
    \/ TickFire /\ UNCHANGED others
    \/ ResetStep /\ UNCHANGED others
    \/ Elapse /\ UNCHANGED others

Spec == Init /\ [][Next]_vars

(* ---------------------------------------------------------------------- *)
(* Runs followed to their end                                              *)
(* ---------------------------------------------------------------------- *)

\* number of calls the application makes
LiveMaxCalls == 2

\* number of 10-second windows, from the construction on, in which the
\* application makes its calls
LiveCallWindows == 2

\* the application may still make a call
MayCall == calls < LiveMaxCalls /\ ticks < LiveCallWindows

\* the task whose call of acquire_permits is waited for
Waiters == {"t2"}

\* the instants at which the client is constructed: 5.5 s before 23:55:00 and
\* before 23:59:00
LiveStartTimes == {DayMs - 5 * MinuteMs - 5500, DayMs - MinuteMs - 5500}

\* the ticker fires at every 10-second boundary up to the midnight that
\* follows the construction, where the windows of all four dimensions end
LiveTick == now < DayMs /\ Tick

LiveNext ==
    \/ \E t \in Waiters :
           \/ MayCall /\ UNCHANGED others /\ \E p \in LimitParams : AcquireCall(t, p)
           \/ AcquireTry(t) /\ UNCHANGED others
           \/ AcquireYield(t) /\ UNCHANGED others
    \/ \E t \in Setters :
           \/ MayCall /\ UNCHANGED others /\ \E resp \in Responses(now) : SetPermitsCall(t, resp)
           \/ SetPermitsBody(t) /\ UNCHANGED others
    \/ \E t \in Setters :
           \/ MayCall /\ UNCHANGED others /\ \E limits \in ExchangeInfos : UpdateCall(t, limits)
           \/ UpdateBody(t) /\ UNCHANGED others
    \/ LiveTick /\ UNCHANGED others
    \/ ResetStep /\ UNCHANGED others

\* the ticker keeps firing, the tick task and the waiting task keep being
\* scheduled
LiveInit == InitAt(LiveStartTimes) /\ Quiet

LiveSpec ==
    /\ LiveInit
    /\ [][LiveNext]_vars
    /\ WF_vars(LiveTick /\ UNCHANGED others)
    /\ WF_vars(ResetStep /\ UNCHANGED others)
    /\ \A t \in Waiters : WF_vars((AcquireTry(t) \/ AcquireYield(t)) /\ UNCHANGED others)

(* ---------------------------------------------------------------------- *)
(* The client dropped                                                      *)
(* ---------------------------------------------------------------------- *)

\* the instant at which the client is constructed: 5.5 s before midnight
DropStartTimes == {DayMs - 5500}

\* the application drops every RestConn it holds (none of its calls is in
\* progress): the RestApiRateLimits of the RestConn is dropped with it.  The
\* clone `ss` moved into the spawned task stays, and the JoinHandle of the
\* task was dropped in new(), which detaches the task
DropClient ==
    /\ client = "held"
    /\ \A t \in Callers : pc[t] = "idle"
    /\ client' = "dropped"
    /\ UNCHANGED << limiter, rest, ws, api >>

\* the tick that follows `now`; the clock is kept within one day, which is
\* all run_tick looks at (hour, minute, second), and the ticks are not counted
DayTick == TickAt(DayMs + ((next_sec10_epoch(now) + TickLagMs) % DayMs), 0)

DropNext ==
    \/ DropClient
    \/ DayTick /\ UNCHANGED others
    \/ ResetStep /\ UNCHANGED others

\* the ticker keeps firing and the tick task keeps being scheduled
DropInit == InitAt(DropStartTimes) /\ Quiet

DropSpec ==
    /\ DropInit
    /\ [][DropNext]_vars
    /\ WF_vars(DayTick /\ UNCHANGED others)
    /\ WF_vars(ResetStep /\ UNCHANGED others)

(* ---------------------------------------------------------------------- *)
(* RestConn::rest_req (src/src/client/rest.rs)                             *)
(* ---------------------------------------------------------------------- *)

\* let mut retry = 6
RetryInit == 6

\* time::sleep(Duration::from_secs(1)): seconds between two attempts
RetryDelaySecs == 1

\* the task that runs rest_req
RestTask == "t1"

\* the paths requested, as their segments
ApiOrderPath == << "api", "v3", "order" >>

SapiListPath == << "sapi", "v1", "sub-account", "list" >>

\* no path is rate limited
never_limited(path) == FALSE

\* path.starts_with("/api")
starts_with_api(path) == Len(path) >= 1 /\ path[1] = "api"

\* s.to_lowercase(), on the methods the callers pass
to_lowercase(s) == IF s = "POST" THEN "post" ELSE s

\* RestMethod::from_str(method) is Ok
method_ok(s) == to_lowercase(s) \in { "get", "put", "post", "delete" }

\* the requests the application makes: path, method and declared cost
RestCalls ==
    { [path |-> ApiOrderPath, method |-> "get", rate_limit |-> [kind |-> "Weight", n |-> 4000]],
      [path |-> ApiOrderPath, method |-> "POST", rate_limit |-> [kind |-> "Order", n |-> 1]],
      [path |-> ApiOrderPath, method |-> "patch", rate_limit |-> [kind |-> "Weight", n |-> 4000]],
      [path |-> SapiListPath, method |-> "get", rate_limit |-> [kind |-> "Weight", n |-> 4000]] }

\* the status codes of the responses
Statuses == { 200, 302, 400, 403, 404, 418, 429, 500 }

\* the bodies of the responses: a JSON object with the fields present in
\* `code` and `msg`, or text that is no JSON object
JsonBody(code, msg) == [kind |-> "object", code |-> code, msg |-> msg]

TextBody == [kind |-> "text", code |-> None, msg |-> None]

Bodies == { JsonBody(Some(0 - 1121), Some("Invalid symbol.")),
            JsonBody(None, Some("Invalid symbol.")),
            TextBody }

\* serde_json::from_str::<BadRequest> with defaults for the missing fields
parse_BadRequest_default(body) ==
    IF body.kind = "object"
    THEN [ok |-> TRUE, code |-> IF body.code = None THEN 0 ELSE Unwrap(body.code),
          msg |-> IF body.msg = None THEN "" ELSE Unwrap(body.msg)]
    ELSE [ok |-> FALSE]

\* serde_json::from_str::<BadRequest>(body): Ok when the body is an object
\* with both fields of BadRequest
parse_BadRequest(body) ==
    IF body.kind = "object" /\ body.code # None /\ body.msg # None
    THEN [ok |-> TRUE, code |-> Unwrap(body.code), msg |-> Unwrap(body.msg)]
    ELSE [ok |-> FALSE]

\* a value of BiAnResult: Ok, or the variant of BiAnApiError with what it carries
Outcome(kind, code, msg, text) == [kind |-> kind, code |-> code, msg |-> msg, text |-> text]

Plain(kind) == Outcome(kind, None, None, None)

Carrying(kind, body) == Outcome(kind, None, None, Some(body))

\* check_rest_resp, the branches for 300 <= status_code < 500
below_500(status_code, body) ==
    IF status_code = 400
    THEN IF parse_BadRequest(body).ok
         THEN Outcome("BadRequest", Some(parse_BadRequest(body).code),
                      Some(parse_BadRequest(body).msg), None)
         ELSE Carrying("ClientError", body)
    ELSE IF status_code = 403 THEN Plain("Waf")
    ELSE IF status_code = 418 THEN Plain("Blocked")
    ELSE IF status_code = 429 THEN Plain("WafWarning")
    ELSE IF status_code > 400 THEN Carrying("ClientError", body)
    ELSE Carrying("Unknown", body)

\* check_rest_resp without the branch for 5xx
check_rest_resp_no_5xx(status_code, body) ==
    IF status_code >= 300 THEN below_500(status_code, body) ELSE Carrying("Ok", body)

\* RestConn::check_rest_resp
check_rest_resp(status_code, body) ==
    IF status_code >= 300
    THEN IF status_code >= 500
         THEN Carrying("ServerError", body)
         ELSE below_500(status_code, body)
    ELSE Carrying("Ok", body)

\* the responses the server may give at time t: a success with each of the
\* header sets, every status, and a 400 with every body
RestResponses(t) ==
    { [head |-> h, status |-> 200, body |-> TextBody] : h \in Responses(t) }
    \cup { [head |-> Hdr(CurrentDate(t), Some(5000), None, None), status |-> s, body |-> TextBody] :
             s \in Statuses }
    \cup { [head |-> Hdr(CurrentDate(t), Some(5000), None, None), status |-> 400, body |-> b] :
             b \in Bodies }

\* what req.send().await gives: a response, or an error that is_connect(),
\* is_timeout(), or neither
SendResults(t) ==
    { [ok |-> TRUE, resp |-> r] : r \in RestResponses(t) }
    \cup { [ok |-> FALSE, err |-> e] : e \in { "connect", "timeout", "other" } }

\* no response received, nothing returned
NoResp == [status |-> 0]

NoResult == Plain("none")

\* the call of rest_req was not made by order
NoOrder == [pc |-> "none", args |-> << >>, result |-> "none", count |-> 0]

\* the state of a call of rest_req at position p
NewRest(p, path, method, limit_param) ==
    [pc |-> p, path |-> path, method |-> method, rate_limit |-> limit_param,
     retry |-> RetryInit, resp |-> NoResp, result |-> NoResult,
     log |-> << >>, delays |-> << >>, order |-> NoOrder]

\* the step that follows req.send().await, from `retry` after its decrement
\* and the result of the send, in a loop that retries every error
after_send_retry_all(retry, result) ==
    IF result.ok THEN "response"
    ELSE IF retry = 0 THEN "ConnectError" ELSE "sleep"

\* the step that follows req.send().await, from `retry` after its decrement
\* and the result of the send
after_send(retry, result) ==
    IF result.ok THEN "response"
    ELSE IF result.err \in { "connect", "timeout" }
         THEN IF retry = 0 THEN "ConnectError" ELSE "sleep"
         ELSE "RequestError"

\* rest_req is entered: make_url, then acquire_permits is called when the
\* path starts with /api, and the retry loop is reached at once otherwise.
\* `log` records what the call does, in order
RestCall(path, method, limit_param) ==
    /\ rest.pc \in { "none", "done" }
    /\ pc[RestTask] = "idle"
    /\ calls < MaxCalls
    /\ IF starts_with_api(path)
       THEN /\ AcquireCall(RestTask, limit_param)
            /\ rest' = NewRest("acquire", path, method, limit_param)
       ELSE /\ rest' = NewRest("send", path, method, limit_param)
            /\ ret' = NoRet
            /\ UNCHANGED << inner, pc, arg, queue, tick_at, now, overflow_checks, calls, ticks >>
    /\ UNCHANGED << client, ws, api >>

\* self.rate_limit.acquire_permits(rate_limit).await goes on; when it returns
\* the retry loop is reached
RestAcquire ==
    /\ rest.pc = "acquire"
    /\ AcquireTry(RestTask) \/ AcquireYield(RestTask)
    /\ rest' = IF pc'[RestTask] = "idle"
               THEN [rest EXCEPT !.pc = "send",
                                 !.log = Append(@, [ev |-> "acquired", arg |-> ret'.arg])]
               ELSE IF pc'[RestTask] = "panicked"
                    THEN [rest EXCEPT !.pc = "panicked"]
                    ELSE rest
    /\ UNCHANGED << client, ws, api >>

\* the call returns `result`
Return(result) == [rest EXCEPT !.pc = "done", !.result = result,
                               !.log = Append(@, [ev |-> "return"])]

\* the send failed; `transport` is e.is_connect() || e.is_timeout()
Failed(result) == [ev |-> "failed", transport |-> result.err \in { "connect", "timeout" }]

\* one iteration of the retry loop: retry -= 1, the method is parsed, the
\* request sent and its result awaited
RestSend(result) ==
    /\ rest.pc = "send"
    /\ LET retry == rest.retry - 1
           sent == [rest EXCEPT !.retry = retry, !.log = Append(@, [ev |-> "send"])]
       IN rest' =
            IF ~method_ok(rest.method)
            THEN [Return(Plain("MethodError")) EXCEPT !.retry = retry]
            ELSE IF after_send(retry, result) = "response"
            THEN [sent EXCEPT !.pc = "set_rate_limit", !.resp = result.resp,
                              !.log = Append(@, [ev |-> "response", head |-> result.resp.head,
                                                 status |-> result.resp.status])]
            ELSE IF after_send(retry, result) = "sleep"
            THEN [sent EXCEPT !.pc = "sleep", !.log = Append(@, Failed(result))]
            ELSE [sent EXCEPT !.pc = "done", !.result = Plain(after_send(retry, result)),
                              !.log = Append(Append(@, Failed(result)), [ev |-> "return"])]
    /\ UNCHANGED << limiter, client, ws, api >>

\* time::sleep(Duration::from_secs(1)).await; continue
RestSleep ==
    /\ rest.pc = "sleep"
    /\ rest' = [rest EXCEPT !.pc = "send", !.delays = Append(@, RetryDelaySecs)]
    /\ UNCHANGED << limiter, client, ws, api >>

\* self.set_rate_limit(head).await: the headers are extracted and set_permits
\* called with them
RestSetRateLimit ==
    /\ rest.pc = "set_rate_limit"
    /\ SetPermitsCall(RestTask, rest.resp.head)
    /\ rest' = [rest EXCEPT !.pc = "set_permits"]
    /\ UNCHANGED << client, ws, api >>

\* set_permits runs its critical section and returns (or panics), then
\* check_rest_resp decides what rest_req returns
RestSetPermits ==
    /\ rest.pc = "set_permits"
    /\ SetPermitsBody(RestTask)
    /\ rest' = IF pc'[RestTask] = "panicked"
               THEN [rest EXCEPT !.pc = "panicked"]
               ELSE [rest EXCEPT !.pc = "check",
                                 !.log = Append(@, [ev |-> "set_permits", head |-> rest.resp.head])]
    /\ UNCHANGED << client, ws, api >>

\* resp = Self::check_rest_resp(resp).await?; Ok(resp.text().await.unwrap())
RestCheck ==
    /\ rest.pc = "check"
    /\ rest' = Return(check_rest_resp(rest.resp.status, rest.resp.body))
    /\ UNCHANGED << limiter, client, ws, api >>

rest_req ==
    \/ \E c \in RestCalls : RestCall(c.path, c.method, c.rate_limit)
    \/ RestAcquire
    \/ \E result \in SendResults(now) : RestSend(result)
    \/ RestSleep
    \/ RestSetRateLimit
    \/ RestSetPermits
    \/ RestCheck

RestNext ==
    \/ rest_req
    \/ TickFire /\ UNCHANGED others
    \/ ResetStep /\ UNCHANGED others
    \/ Elapse /\ UNCHANGED others

\* the instant at which the client is constructed: 5.5 s before 00:01:00
RestStartTimes == { DayMs + MinuteMs - 5500 }

RestInit == InitAt(RestStartTimes) /\ Quiet

RestSpec == RestInit /\ [][RestNext]_vars

(* ---------------------------------------------------------------------- *)
(* RestConn::order (src/src/client/spot_account_trade.rs) and POrder::new  *)
(* (src/src/client/params.rs)                                              *)
(* ---------------------------------------------------------------------- *)

\* number of calls of order
MaxOrders == 1

\* s.to_uppercase(), on the strings the callers pass
to_uppercase(s) ==
    IF s = "buy" THEN "BUY"
    ELSE IF s = "limit" THEN "LIMIT"
    ELSE IF s = "gtc" THEN "GTC"
    ELSE s

\* the strings OrderSide::from, OrderType::from and TimeInForce::from accept
\* once in upper case; they panic on any other
OrderSides == { "BUY", "SELL" }

OrderTypes ==
    { "LIMIT", "MARKET", "STOPLOSS", "STOPLOSSLIMIT", "TAKEPROFIT", "TAKEPROFITLIMIT",
      "LIMITMAKER" }

TimesInForce == { "GTC", "IOC", "FOK" }

\* the Option<f64> arguments: omitted, or a number
Amounts == { None, Some(1) }

\* the arguments of a call of order that POrder::new looks at
OrderArgs ==
    [side : { "buy" },
     order_type : OrderTypes \cup { "limit", "STOP_LOSS" },
     time_in_force : { None, Some("gtc") },
     qty : Amounts, quote_order_qty : Amounts, price : Amounts, stop_price : Amounts]

\* OrderSide::from(side), OrderType::from(order_type) or
\* time_in_force.map(TimeInForce::from) panics
from_panics(a) ==
    \/ to_uppercase(a.side) \notin OrderSides
    \/ to_uppercase(a.order_type) \notin OrderTypes
    \/ a.time_in_force # None /\ to_uppercase(Unwrap(a.time_in_force)) \notin TimesInForce

\* POrder::new refuses nothing
refuses_nothing(a) == FALSE

\* POrder::new returns Err(ArgumentError(..)): the match on the order type
refuses(a) ==
    LET ot == to_uppercase(a.order_type)
        tif == a.time_in_force
    IN IF ot = "LIMIT"
       THEN ~(tif # None /\ a.qty # None /\ a.price # None)
       ELSE IF ot = "MARKET"
       THEN (a.qty = None /\ a.quote_order_qty = None) \/ tif # None
       ELSE IF ot \in { "STOPLOSS", "TAKEPROFIT" }
       THEN ~(a.qty # None /\ a.stop_price # None)
       ELSE IF ot \in { "STOPLOSSLIMIT", "TAKEPROFITLIMIT" }
       THEN ~(tif # None /\ a.qty # None /\ a.price # None /\ a.stop_price # None)
       ELSE ~(a.qty # None /\ a.price # None)

\* price.map(|x| info.adjust_price(x)) and the like: an argument that is
\* given stays given, one that is omitted stays omitted
adjusted(o, known) == IF o = None \/ ~known THEN o ELSE Some(<< "adjusted", Unwrap(o) >>)

\* the arguments after `if let Some(info) = self.symbol_info(symbol)`
after_symbol_info(a, known) ==
    [a EXCEPT !.price = adjusted(@, known), !.stop_price = adjusted(@, known),
              !.qty = adjusted(@, known)]

\* a call of order: where it is, the arguments given to POrder::new, what it
\* returned and how many calls were made
Ordered(p, a, result, count) == [pc |-> p, args |-> a, result |-> result, count |-> count]

\* the calls of order made so far
OrderCount == IF rest.pc = "none" THEN 0 ELSE rest.order.count

\* order is called: the amounts are adjusted when the symbol is known,
\* POrder::new is called and, when it returns Ok, rest_req is entered with
\* "post", /api/v3/order and RateLimitParam::Order(1), which calls
\* acquire_permits
OrderCall(a, known) ==
    /\ rest.pc \in { "none", "done", "unused" }
    /\ pc[RestTask] = "idle"
    /\ OrderCount < MaxOrders
    /\ LET args == after_symbol_info(a, known)
           limit_param == [kind |-> "Order", n |-> 1]
       IN IF from_panics(args) \/ refuses(args)
          THEN /\ rest' = [NewRest("unused", ApiOrderPath, "post", limit_param) EXCEPT
                              !.order = Ordered(IF from_panics(args) THEN "panicked" ELSE "returned",
                                                args,
                                                IF from_panics(args) THEN "none" ELSE "ArgumentError",
                                                OrderCount + 1)]
               /\ ret' = NoRet
               /\ UNCHANGED << inner, pc, arg, queue, tick_at, now, overflow_checks, calls, ticks >>
          ELSE /\ AcquireCall(RestTask, limit_param)
               /\ rest' = [NewRest("acquire", ApiOrderPath, "post", limit_param) EXCEPT
                              !.order = Ordered("rest_req", args, "none", OrderCount + 1)]
    /\ UNCHANGED << client, ws, api >>

\* rest_req has returned: its error is returned by `?`, and its text is
\* decoded, serde_json::from_str::<Order>(&res)?
OrderReturn(decodes) ==
    /\ rest.pc = "done"
    /\ rest.order.pc = "rest_req"
    /\ rest' = [rest EXCEPT !.order.pc = "returned",
                            !.order.result = IF rest.result.kind # "Ok" THEN rest.result.kind
                                             ELSE IF decodes THEN "Ok" ELSE "DecodeError"]
    /\ UNCHANGED << limiter, client, ws, api >>

\* RestConn::order (`order` names the iteration orders of a set below)
RestConn_order ==
    \/ \E a \in OrderArgs, known \in BOOLEAN : OrderCall(a, known)
    \/ \E decodes \in BOOLEAN : OrderReturn(decodes)

\* what req.send().await gives to a call of order: the order made, a 400, or
\* an error of each kind
OrderSendResults(t) ==
    { [ok |-> TRUE, resp |-> [head |-> Hdr(CurrentDate(t), Some(5000), None, None),
                              status |-> st, body |-> TextBody]] : st \in { 200, 400 } }
    \cup { [ok |-> FALSE, err |-> e] : e \in { "connect", "other" } }

OrderNext ==
    \/ RestConn_order
    \/ RestAcquire
    \/ \E result \in OrderSendResults(now) : RestSend(result)
    \/ RestSleep
    \/ RestSetRateLimit
    \/ RestSetPermits
    \/ RestCheck

OrderInit == InitAt(RestStartTimes) /\ Quiet

OrderSpec == OrderInit /\ [][OrderNext]_vars

(* ---------------------------------------------------------------------- *)
(* A market-stream session: WS and WsClient (src/src/client/websocket.rs)  *)
(* ---------------------------------------------------------------------- *)

\* v.len() > 1024 is refused by WS::new
MaxStreams == 1024

\* the stream names the application subscribes to (non-empty, without "/")
Streams == { "btcusdt@aggTrade", "ethusdt@depth", "bnbusdt@kline_1m" }

\* the names that fill a set up to the limit: "1", "2", ...
Numbered(n) == { ToString(i) : i \in 1..n }

\* the names of S that are numbers, by increasing number
numbered_of(S) ==
    SelectSeq([i \in 1..(MaxStreams + 1) |-> ToString(i)], LAMBDA name : name \in S)

\* the arrangements of the names of S
Perms(S) == { f \in [1..Cardinality(S) -> S] : \A i, j \in 1..Cardinality(S) : f[i] = f[j] => i = j }

\* the orders in which a HashSet of names may be iterated; the numbered
\* names, which only fill the set, are taken in one order and first
Orders(S) == { numbered_of(S) \o f : f \in Perms(S \ Numbered(MaxStreams + 1)) }

\* Vec::from_iter(..).join("/"): the names with a "/" between two of them.
\* A string is modelled as the sequence of its pieces
join(names) ==
    IF Len(names) = 0 THEN << >>
    ELSE [i \in 1..(2 * Len(names) - 1) |-> IF i % 2 = 1 THEN names[(i + 1) \div 2] ELSE "/"]

\* ChannelPath::to_path of MarketStream(s), iterated in `order`
to_path(order) == join(order)

\* WS::ws_url of MarketStream(s), iterated in `order`
ws_url(order) ==
    IF to_path(order) # << >>
    THEN << "WS_STREAM_URL", "/stream?streams=" >> \o to_path(order)
    ELSE << "WS_STREAM_URL", "/stream" >> \o to_path(order)

\* ChannelPath::extend / ChannelPath::remove for each content, of a
\* MarketStream
apply_frame(op, h, contents) == IF op = "subscribe" THEN h \cup contents ELSE h \ contents

\* no call of stream_subscribe / stream_unsubscribe has returned
NoFrame == [pc |-> "idle", op |-> "none", contents |-> {}, before |-> {}, ok |-> FALSE]

\* the read guards of channel_path a call of replace_inner_stream holds
\* nowhere
path_guards_none(p) == 0

\* the read guards of channel_path the reader task holds at position p: `s` of
\* replace_inner_stream lives from its first line to its return
path_guards(p) ==
    IF p \in { "connect", "retry_log", "sleep", "swap_writer", "success_log" } THEN 1 ELSE 0

\* the subscriber holds the write guard of ws_writer: the temporary of the
\* scrutinee of `match self.ws_writer.write().await.send(msg).await` lives to
\* the end of the match
writer_held == ws.sub.pc \in { "send", "lock_path", "log" }

\* a writer is queued on channel_path: the RwLock is fair, a reader that
\* comes after it waits behind it
writer_queued == ws.sub.pc = "lock_path"

\* the connection the writer half belongs to is alive
writer_up == ws.up /\ ws.writer_conn = Len(ws.conns)

\* the payloads of the text frames the server sends: two that are the JSON of
\* a WsResponse and one that is not
TextData == { "aggTrade:1", "aggTrade:2", "garbage" }

\* the payloads of the Ping frames the server sends
PingData == { "ping-1", "ping-2" }

\* serde_json::from_slice::<WsResponse>(data.as_bytes()) is Ok for every
\* payload
decode_any(data) == [ok |-> TRUE, resp |-> << "WsResponse", data >>]

\* serde_json::from_slice::<WsResponse>(data.as_bytes())
decode(data) ==
    IF data \in { "aggTrade:1", "aggTrade:2" }
    THEN [ok |-> TRUE, resp |-> << "WsResponse", data >>]
    ELSE [ok |-> FALSE, resp |-> << >>]

\* what ws_reader.next() gives
Item(kind, data) == [kind |-> kind, data |-> data]

\* nothing read yet, no Pong written yet
NoItem == Item("none", "")

NoPong == [data |-> "", conn |-> 0, sent |-> FALSE]

\* the frames a live connection delivers
Frames == { Item("text", d) : d \in TextData } \cup { Item("ping", d) : d \in PingData }

\* how a connection ends for its reader: an error (Some(Err(e))), a Close
\* frame with a payload, a Close frame without one
Endings == { "error", "close_some", "close_none" }

\* handle_msg returns Some(reason) for every Close frame
breaks_on_close(kind) == kind \in { "error", "close_some", "close_none" }

\* the inner loop of read_from_channel is left with err_msg: the item is
\* Some(Err(e)), or handle_msg returns Some(reason), which it does for
\* Message::Close(Some(data)) only
breaks(kind) == kind \in { "error", "close_some" }

\* handle_msg returns Some(reason) for a text frame that does not decode
text_breaks_on_error(ok) == ~ok

\* handle_msg returns None for a text frame, decoded or not
text_breaks(ok) == FALSE

\* the Pong that answers a Ping has no payload
pong_empty(d) == ""

\* let msg = Message::Pong(d)
pong_of(d) == d

\* the top of the inner loop of read_from_channel:
\* if data_sender.is_closed() { return }, else ws_reader.next() is awaited
loop_top(w) == IF w.data_closed THEN "returned" ELSE "reading"

\* close_stream on a session w: the Close frame is written to ws_writer,
\* whose connection accepts no frame after it (wclosed); it ends the
\* connection it reaches, whose server answers with a Close frame that
\* carries the payload sent
close_stream(w) ==
    IF w.up /\ w.writer_conn = Len(w.conns)
    THEN [w EXCEPT !.up = FALSE, !.next = "close_some", !.wclosed = TRUE]
    ELSE [w EXCEPT !.wclosed = TRUE]

\* read_close_channel returns after every signal
returns_always(force) == TRUE

\* read_close_channel: if data { return }
returns_on(force) == force

\* the reader task of w waits at an await that is not ready: for a frame of
\* a live connection, for a lock another task holds, for connect_async or for
\* the sleep between two attempts; the guards are those of the actions below
rd_pending(w, held, queued) ==
    CASE w.rd.pc = "reading" -> w.up
      [] w.rd.pc \in { "pong", "swap_writer" } -> held
      [] w.rd.pc \in { "warn", "lock_path", "retry_log", "success_log" } -> queued
      [] w.rd.pc \in { "connect", "sleep" } -> TRUE
      [] OTHER -> FALSE

\* the close-signal task of w waits for a signal or for ws_writer
cl_pending(w, held) ==
    CASE w.cl.pc = "recv" -> w.close_q = << >>
      [] w.cl.pc = "close" -> held
      [] OTHER -> FALSE

\* join_set.shutdown() has asked for the tasks of w to be cancelled, which
\* happens where they wait
aborting(w) == w.sv = "shutdown"

\* a task that has not finished is cancelled
abort(p) == IF p = "returned" THEN p ELSE "aborted"

\* the positions of a task that runs no more
Stopped == { "returned", "aborted" }

\* no set is too large
never_too_many(v) == FALSE

\* if v.len() > 1024
too_many(v) == Cardinality(v) > MaxStreams

\* Err(BiAnApiError::TooManySubscribes(v.len())) returned by WS::new, and by
\* WsClient::new through `?`: no url is made, no connection asked for, no
\* task spawned
Refused(channel_path) ==
    [pc |-> "refused", channel_path |-> channel_path,
     err |-> << "TooManySubscribes", Cardinality(channel_path) >>,
     conns |-> << >>, rd |-> [pc |-> "none"], cl |-> [pc |-> "none"], sv |-> "none"]

\* WS::new then WsClient::new: a set of more than 1024 names is refused;
\* otherwise the connection to ws_url(channel_path) is made, the reader task,
\* the close-signal task and the supervisor are spawned
WsNew(channel_path, order) ==
    /\ ws.pc = "none"
    /\ ws' = IF too_many(channel_path) THEN Refused(channel_path) ELSE
             [pc |-> "open", channel_path |-> channel_path,
              conns |-> << ws_url(order) >>, up |-> TRUE, next |-> "none",
              reader_conn |-> 1, writer_conn |-> 1, wclosed |-> FALSE,
              sub |-> NoFrame, last |-> NoFrame,
              rd |-> [pc |-> "reading", url |-> << >>, attempts |-> 0],
              subs |-> 0,
              cl |-> [pc |-> "recv", force |-> FALSE], sv |-> "join",
              close_q |-> << >>, closes |-> 0, forced |-> FALSE, bounced |-> 0,
              data_closed |-> FALSE, frames |-> 0,
              item |-> NoItem, read_on |-> 0, pong |-> NoPong,
              texts |-> << >>, delivered |-> << >>]
    /\ UNCHANGED << limiter, client, rest, api >>

\* WsClient::subscribe / unsubscribe -> stream_subscribe / stream_unsubscribe
\* is called: the frame is built and self.ws_writer.write() awaited
SubCall(op, contents) ==
    /\ ws.pc = "open"
    /\ ws.sub.pc = "idle"
    /\ ws.subs < MaxSubCalls
    /\ ws' = [ws EXCEPT !.subs = @ + 1,
                        !.sub = [pc |-> "lock_writer", op |-> op, contents |-> contents,
                                 before |-> ws.channel_path, ok |-> FALSE]]
    /\ UNCHANGED << limiter, client, rest, api >>

\* the write guard of ws_writer is obtained
SubLockWriter ==
    /\ ws.pc = "open"
    /\ ws.sub.pc = "lock_writer"
    /\ ws' = [ws EXCEPT !.sub.pc = "send"]
    /\ UNCHANGED << limiter, client, rest, api >>

\* what follows send(msg).await: channel_path.write() is awaited when the
\* frame was sent, and the error logged in every case
after_frame_always(ok) == "lock_path"

\* what follows send(msg).await: channel_path.write() is awaited when the
\* frame was sent, and the error logged (self.channel_path().await) otherwise
after_frame(ok) == IF ok THEN "lock_path" ELSE "log"

\* send(msg).await completes: Ok on a live connection, Err on one that has
\* sent or read a Close frame; on a connection lost otherwise the write may
\* still be accepted locally, or fail
SubSend(ok) ==
    /\ ws.pc = "open"
    /\ ws.sub.pc = "send"
    /\ writer_up => ok
    /\ ws.wclosed => ~ok
    /\ ws' = [ws EXCEPT !.sub.pc = after_frame(ok), !.sub.ok = ok]
    /\ UNCHANGED << limiter, client, rest, api >>

\* Ok arm: the write guard of channel_path is obtained (no read guard is
\* held), the set extended or the contents removed, and both guards dropped
SubUpdate ==
    /\ ws.pc = "open"
    /\ ws.sub.pc = "lock_path"
    /\ path_guards(ws.rd.pc) = 0
    /\ ws' = [ws EXCEPT !.channel_path = apply_frame(ws.sub.op, @, ws.sub.contents),
                        !.sub = NoFrame,
                        !.last = ws.sub]
    /\ UNCHANGED << limiter, client, rest, api >>

\* Err arm: error!(.., self.channel_path().await) reads the set, and the
\* guard of ws_writer is dropped
SubLog ==
    /\ ws.pc = "open"
    /\ ws.sub.pc = "log"
    /\ ws' = [ws EXCEPT !.sub = NoFrame, !.last = ws.sub]
    /\ UNCHANGED << limiter, client, rest, api >>

\* the server or the network ends the live connection; `next` is what its
\* reader is given then
ServerDrop(ending) ==
    /\ ws.pc = "open"
    /\ ws.up
    /\ Len(ws.conns) < MaxConns
    /\ ws' = [ws EXCEPT !.up = FALSE, !.next = ending]
    /\ UNCHANGED << limiter, client, rest, api >>

\* WsClient::close(force): close_sender.send(force).await, into a channel of
\* capacity 1 whose receiver the close-signal task holds
Close(force) ==
    /\ ws.pc = "open"
    /\ ws.cl.pc \notin Stopped
    /\ Len(ws.close_q) < 1
    /\ ws.closes < MaxCloses
    /\ ws' = [ws EXCEPT !.close_q = Append(@, force), !.closes = @ + 1,
                        !.forced = @ \/ force]
    /\ UNCHANGED << limiter, client, rest, api >>

\* read_close_channel: close_receiver.recv().await gives Some(data), and
\* close_stream awaits the write guard of ws_writer
ClRecv ==
    /\ ws.pc = "open"
    /\ ws.cl.pc = "recv"
    /\ ws.close_q # << >>
    /\ ws' = [ws EXCEPT !.close_q = Tail(@), !.cl = [pc |-> "close", force |-> Head(ws.close_q)]]
    /\ UNCHANGED << limiter, client, rest, api >>

\* read_close_channel: close_stream sends the Close frame (an error is
\* logged), then the task returns if data, and waits for the next signal
\* otherwise; `bounced` is the last connection a close(false) has closed
ClCloseStream ==
    /\ ws.pc = "open"
    /\ ws.cl.pc = "close"
    /\ ~writer_held
    /\ ws' = [close_stream(ws) EXCEPT
                  !.cl.pc = IF returns_on(ws.cl.force) THEN "returned" ELSE "recv",
                  !.bounced = IF writer_up /\ ~ws.cl.force THEN ws.writer_conn ELSE @]
    /\ UNCHANGED << limiter, client, rest, api >>

\* the supervisor: join_set.join_next().await completes when the first of
\* the two tasks has finished, and join_set.shutdown() aborts the other
SvJoin ==
    /\ ws.pc = "open"
    /\ ws.sv = "join"
    /\ ws.rd.pc = "returned" \/ ws.cl.pc = "returned"
    /\ ws' = [ws EXCEPT !.sv = "shutdown"]
    /\ UNCHANGED << limiter, client, rest, api >>

\* the supervisor: join_set.shutdown().await completes once the task that
\* is left is cancelled, which happens where it waits
SvShutdown ==
    /\ ws.pc = "open"
    /\ ws.sv = "shutdown"
    /\ ws.rd.pc \in Stopped \/ rd_pending(ws, writer_held, writer_queued)
    /\ ws.cl.pc \in Stopped \/ cl_pending(ws, writer_held)
    /\ ws' = [ws EXCEPT !.sv = "close", !.rd.pc = abort(@), !.cl.pc = abort(@)]
    /\ UNCHANGED << limiter, client, rest, api >>

\* the supervisor: let _ = ss.ws.close_stream().await, then the task ends and
\* the JoinHandle returned by WsClient::new completes
SvClose ==
    /\ ws.pc = "open"
    /\ ws.sv = "close"
    /\ ~writer_held
    /\ ws' = [close_stream(ws) EXCEPT !.sv = "done"]
    /\ UNCHANGED << limiter, client, rest, api >>

\* the application drops the receiver of the data channel
DropReceiver ==
    /\ ws.pc = "open"
    /\ ~ws.data_closed
    /\ ws' = [ws EXCEPT !.data_closed = TRUE]
    /\ UNCHANGED << limiter, client, rest, api >>

\* read_from_channel: ws_reader.next() gives a frame of the live connection
\* (for which the task waited, and at which it is cancelled if asked to) and
\* handle_msg handles it.  A text frame is decoded and, when that
\* succeeds, forwarded to data_sender (an error is logged when the receiver is
\* gone); a Ping is answered, which awaits the write guard of ws_writer
RdFrame(item) ==
    /\ ws.pc = "open"
    /\ ws.rd.pc = "reading"
    /\ ws.up
    /\ ~aborting(ws)
    /\ item.kind = "text" => ws.frames < MaxFrames
    /\ ws' =
         IF item.kind = "ping"
         THEN [ws EXCEPT !.item = item, !.read_on = ws.reader_conn,
                         !.pong = NoPong, !.rd.pc = "pong"]
         ELSE [ws EXCEPT !.item = item, !.read_on = ws.reader_conn,
                         !.frames = @ + 1,
                         !.texts = Append(@, item.data),
                         !.delivered = IF decode(item.data).ok /\ ~ws.data_closed
                                       THEN Append(@, decode(item.data).resp)
                                       ELSE @,
                         !.rd.pc = IF text_breaks(decode(item.data).ok)
                                   THEN "warn" ELSE loop_top(ws)]
    /\ UNCHANGED << limiter, client, rest, api >>

\* handle_msg, Message::Ping(d): self.ws.ws_writer.write().await.send(Pong(d));
\* an error of the send is logged
RdPong ==
    /\ ws.pc = "open"
    /\ ws.rd.pc = "pong"
    /\ ~writer_held
    /\ ws' = [ws EXCEPT !.pong = [data |-> pong_of(ws.item.data), conn |-> ws.writer_conn,
                                  sent |-> writer_up],
                        !.rd.pc = loop_top(ws)]
    /\ UNCHANGED << limiter, client, rest, api >>

\* read_from_channel: ws_reader.next() on a connection that is over gives its
\* ending: the inner loop is left with err_msg on an error and on
\* Close(Some(_)), where warn!(.., channel_path().await) waits for a read
\* guard; a Close frame without payload falls to `_ => ()`, after which
\* next() gives None, for which the loop has no branch
RdOver ==
    /\ ws.pc = "open"
    /\ ws.rd.pc = "reading"
    /\ ~ws.up
    /\ ws' = [ws EXCEPT !.item = Item(ws.next, ""), !.read_on = ws.reader_conn,
                        !.next = IF ws.next = "close_none" THEN "end" ELSE @,
                        !.wclosed = @ \/ ws.next \in { "close_some", "close_none" },
                        !.rd.pc = IF breaks(ws.next) THEN "warn" ELSE loop_top(ws)]
    /\ UNCHANGED << limiter, client, rest, api >>

\* warn!("ws closed: ..", self.ws.channel_path().await): a read guard is
\* obtained and dropped; replace_inner_stream is entered
RdWarn ==
    /\ ws.pc = "open"
    /\ ws.rd.pc = "warn"
    /\ ~writer_queued
    /\ ws' = [ws EXCEPT !.rd.pc = "lock_path"]
    /\ UNCHANGED << limiter, client, rest, api >>

\* replace_inner_stream: let s = self.channel_path.read().await;
\* let url = Self::ws_url(&s), the set iterated in some order
RdLockPath ==
    /\ ws.pc = "open"
    /\ ws.rd.pc = "lock_path"
    /\ ~writer_queued
    /\ \E order \in Orders(ws.channel_path) :
           ws' = [ws EXCEPT !.rd.pc = "connect", !.rd.url = ws_url(order), !.rd.attempts = 0]
    /\ UNCHANGED << limiter, client, rest, api >>

\* connect_async(&url).await: on success the new reader half replaces
\* ws_reader (nobody else holds its lock) and ws_writer.write() is awaited;
\* on failure the retry is logged
RdConnect(ok) ==
    /\ ws.pc = "open"
    /\ ws.rd.pc = "connect"
    /\ ~aborting(ws)
    /\ ~ok => ws.rd.attempts < MaxAttempts
    /\ ws' = IF ok
             THEN [ws EXCEPT !.conns = Append(@, ws.rd.url), !.up = TRUE, !.next = "none",
                             !.reader_conn = Len(ws.conns) + 1,
                             !.rd.pc = "swap_writer"]
             ELSE [ws EXCEPT !.rd.pc = "retry_log", !.rd.attempts = @ + 1]
    /\ UNCHANGED << limiter, client, rest, api >>

\* warn!("retry to build ..", self.channel_path().await): a second read guard
\* is obtained while `s` is held, behind any queued writer
RdRetryLog ==
    /\ ws.pc = "open"
    /\ ws.rd.pc = "retry_log"
    /\ ~writer_queued
    /\ ws' = [ws EXCEPT !.rd.pc = "sleep"]
    /\ UNCHANGED << limiter, client, rest, api >>

\* tokio::time::sleep(dur).await, then the loop connects again
RdSleep ==
    /\ ws.pc = "open"
    /\ ws.rd.pc = "sleep"
    /\ ~aborting(ws)
    /\ ws' = [ws EXCEPT !.rd.pc = "connect"]
    /\ UNCHANGED << limiter, client, rest, api >>

\* *self.ws_writer.write().await = ws_writer
RdSwapWriter ==
    /\ ws.pc = "open"
    /\ ws.rd.pc = "swap_writer"
    /\ ~writer_held
    /\ ws' = [ws EXCEPT !.writer_conn = ws.reader_conn, !.wclosed = FALSE,
                        !.rd.pc = "success_log"]
    /\ UNCHANGED << limiter, client, rest, api >>

\* warn!("build websocket stream success: ..", self.channel_path().await),
\* break, `s` dropped; neither flag of a market session is set, and the
\* outer loop of read_from_channel starts over
RdSuccessLog ==
    /\ ws.pc = "open"
    /\ ws.rd.pc = "success_log"
    /\ ~writer_queued
    /\ ws' = [ws EXCEPT !.rd.pc = loop_top(ws)]
    /\ UNCHANGED << limiter, client, rest, api >>

\* the contents a call names
Contents == { { "ethusdt@depth" }, { "btcusdt@aggTrade", "bnbusdt@kline_1m" } }

\* the sets a session is opened with
InitialPaths == { {}, { "btcusdt@aggTrade" } }

\* the steps of a call of stream_subscribe / stream_unsubscribe once made
stream_frame_steps ==
    \/ SubLockWriter
    \/ \E ok \in BOOLEAN : SubSend(ok)
    \/ SubUpdate
    \/ SubLog

stream_frame ==
    \/ \E op \in { "subscribe", "unsubscribe" }, contents \in Contents : SubCall(op, contents)
    \/ stream_frame_steps

\* replace_inner_stream
replace_inner_stream ==
    \/ RdLockPath
    \/ \E ok \in BOOLEAN : RdConnect(ok)
    \/ RdRetryLog
    \/ RdSleep
    \/ RdSwapWriter
    \/ RdSuccessLog

\* the steps of read_from_channel between two frames of a live connection
reconnect ==
    \/ RdOver
    \/ RdWarn
    \/ replace_inner_stream

read_from_channel ==
    \/ \E item \in Frames : RdFrame(item)
    \/ RdPong
    \/ reconnect

read_close_channel ==
    \/ ClRecv
    \/ ClCloseStream

supervisor ==
    \/ SvJoin
    \/ SvShutdown
    \/ SvClose

\* the sets a session that reaches the limit is opened with: as many names
\* as the limit allows, and one more
FullPaths == { Numbered(MaxStreams), Numbered(MaxStreams + 1) }

\* a session opened at the limit, whose set is changed while its connection
\* comes and goes
FullNext ==
    \/ \E channel_path \in FullPaths : \E order \in Orders(channel_path) : WsNew(channel_path, order)
    \/ stream_frame
    \/ reconnect
    \/ \E ending \in Endings : ServerDrop(ending)

FullInit == InitAt(RestStartTimes) /\ Quiet

FullSpec == FullInit /\ [][FullNext]_vars

\* a session whose set is changed while its connection comes and goes
WsNext ==
    \/ \E channel_path \in InitialPaths : \E order \in Orders(channel_path) : WsNew(channel_path, order)
    \/ stream_frame
    \/ reconnect
    \/ \E ending \in Endings : ServerDrop(ending)

WsInit == InitAt(RestStartTimes) /\ Quiet

WsSpec == WsInit /\ [][WsNext]_vars

\* the reader task and the calls that change the set are scheduled, and a
\* connection attempt succeeds in the end
WsLive ==
    /\ WsInit
    /\ [][WsNext]_vars
    /\ WF_vars(reconnect)
    /\ WF_vars(RdConnect(TRUE))
    /\ WF_vars(stream_frame_steps)

\* one call that changes the set
one_frame ==
    \/ ws.pc = "open" /\ ws.subs < MaxLateCalls /\ SubCall("subscribe", { "ethusdt@depth" })
    \/ stream_frame_steps

\* a session that reads frames while its connection comes and goes and the
\* application may drop the receiver of the data channel
FrameNext ==
    \/ WsNew({ "btcusdt@aggTrade" }, << "btcusdt@aggTrade" >>)
    \/ one_frame
    \/ read_from_channel
    \/ \E ending \in Endings : ServerDrop(ending)
    \/ DropReceiver

FrameInit == InitAt(RestStartTimes) /\ Quiet

FrameSpec == FrameInit /\ [][FrameNext]_vars

\* the Ping frames of a live connection
keepalive == RdFrame(Item("ping", "ping-1"))

\* a session from WsClient::new to the completion of its JoinHandle
SessNext ==
    \/ WsNew({ "btcusdt@aggTrade" }, << "btcusdt@aggTrade" >>)
    \/ one_frame
    \/ keepalive
    \/ RdPong
    \/ reconnect
    \/ read_close_channel
    \/ supervisor
    \/ \E ending \in Endings : ServerDrop(ending)
    \/ \E force \in BOOLEAN : Close(force)
    \/ DropReceiver

SessInit == InitAt(RestStartTimes) /\ Quiet

SessSpec == SessInit /\ [][SessNext]_vars

\* the tasks of the session are scheduled, a connection attempt succeeds in
\* the end, and the server keeps sending Ping frames on a live connection
SessLive ==
    /\ SessInit
    /\ [][SessNext]_vars
    /\ WF_vars(keepalive \/ RdPong \/ reconnect)
    /\ WF_vars(RdConnect(TRUE))
    /\ WF_vars(stream_frame_steps)
    /\ WF_vars(read_close_channel)
    /\ WF_vars(supervisor)

(* ---------------------------------------------------------------------- *)
(* A socket-API session: WsClient::ws_api (src/src/client/websocket.rs)    *)
(* ---------------------------------------------------------------------- *)

\* the requests the session sends
Logon == "session.logon"

Status == "session.status"

UdsSubscribe == "userDataStream.subscribe"

UdsUnsubscribe == "userDataStream.unsubscribe"

\* a reply whose result decodes to WebsocketApiResponse::LogonInfo, with what
\* handle_msg reads of it: authorized_since.is_some() and user_data_stream
LogonInfo(authorized, uds) ==
    [kind |-> "LogonInfo", authorized_since |-> authorized, user_data_stream |-> uds]

\* a reply whose result is no LogonInfo
OtherReply == [kind |-> "other", authorized_since |-> FALSE, user_data_stream |-> FALSE]

\* the server's side of a connection just made: not logged on, no user data
\* stream
FreshServer == [authorized |-> FALSE, uds |-> FALSE]

\* the server's side of the connection after it has served `method`
served(server, method) ==
    IF method = Logon THEN [server EXCEPT !.authorized = TRUE]
    ELSE IF method = UdsSubscribe THEN [server EXCEPT !.uds = server.authorized]
    ELSE IF method = UdsUnsubscribe THEN [server EXCEPT !.uds = FALSE]
    ELSE server

\* the reply the server gives to `method`: the session's state for
\* session.logon and session.status, as it is when the request is served
reply(server, method) ==
    IF method \in { Logon, Status }
    THEN LogonInfo(served(server, method).authorized, served(server, method).uds)
    ELSE OtherReply

\* the keys a client is given: none, or the key of an account
NoKey == ""

Keys == { NoKey, "key" }

\* ApiSecKey::default(), the key of a client that WsClient::new made
ApiSecKeyDefault == NoKey

\* api_sec_key.is_api_empty()
is_api_empty(api_sec_key) == api_sec_key = NoKey

\* a request whose id is 1 whatever ids were given before
PWebSocketApi_first(a, method) == [id |-> 1, method |-> method]

\* PWebSocketApi::new: id: Uuid::new_v4(), an id that no request of the
\* session was given before, and the method
PWebSocketApi(a, method) == [id |-> Cardinality(a.ids) + 1, method |-> method]

\* what a call of send_api_req leaves: the method, the Result returned and
\* the frame written to the connection, if one was
NoReq == [method |-> "none", ok |-> FALSE, err |-> None, id |-> 0, frame |-> None]

\* send_api_req: Err(ApiKeyError) when the key is empty; otherwise the request
\* is made and written to ws_writer, and when the connection is lost the
\* error is logged and Ok(id) returned all the same
send_api_req(a, method) ==
    IF is_api_empty(a.api_sec_key)
    THEN [a EXCEPT !.last = [method |-> method, ok |-> FALSE, err |-> Some("ApiKeyError"),
                             id |-> 0, frame |-> None]]
    ELSE LET param == PWebSocketApi(a, method)
         IN [a EXCEPT !.ids = @ \cup { param.id },
                      !.inbox = IF a.up THEN Append(@, param) ELSE @,
                      !.last = [method |-> method, ok |-> TRUE, err |-> None, id |-> param.id,
                                frame |-> IF a.up THEN Some(param) ELSE None]]

\* the sleeps of the polling loops
short_dur == 100

long_dur == 10 * SecMs

\* the number of turns of a polling loop that sleep short_dur
LongAfter == 100

\* a sleep that is short whatever the turn
always_short(n) == short_dur

\* if n >= 100 { sleep(long_dur) } else { sleep(short_dur) }
poll_sleep(n) == IF n >= LongAfter THEN long_dur ELSE short_dur

\* the numbers of turns a polling loop takes while no other task runs: one,
\* or as many as lead to the first long sleep
TurnSteps == { 1, LongAfter + 1 }

\* j requests made while the connection is down: each is given an id and
\* none is written
refused(a, j) ==
    [a EXCEPT !.ids = @ \cup (Cardinality(a.ids) + 1 .. Cardinality(a.ids) + j)]

\* k turns of the loop of user_data_stream_subscribe that find the flag
\* unset: session_status is called in each
polled(a, k) == send_api_req(refused(a, k - 1), Status)

\* send_api_req called by the reader after a reconnection; `sent` keeps the
\* methods it has sent since
resent(a, method) == [send_api_req(a, method) EXCEPT !.sent = @ \cup { method }]

\* handle_msg: a reply that is a LogonInfo stores both flags
flags_stored(a, r) ==
    IF r.kind = "LogonInfo"
    THEN [a EXCEPT !.logon_flag = r.authorized_since, !.uds_subscribed = r.user_data_stream]
    ELSE a

\* the application calls a method of the session
AppCalls(a) == [a EXCEPT !.calls = @ + 1, !.app_since = TRUE]

\* WsClient::new(ChannelPath::Api, ..), which leaves ApiSecKey::default(), or
\* WsClient::ws_api(api_sec_key, ..), which sets the key after it: the
\* connection is made, both flags are false, the background tasks are spawned
ApiNew(api_sec_key) ==
    /\ api.pc = "none"
    /\ api' = [pc |-> "open", logon_flag |-> FALSE, uds_subscribed |-> FALSE,
               up |-> TRUE, conns |-> 1, server |-> FreshServer,
               inbox |-> << >>, outbox |-> << >>,
               api_sec_key |-> api_sec_key, ids |-> {}, last |-> NoReq,
               app |-> "idle", n |-> 0, slept |-> 0, polls |-> 0, rd |-> "reading",
               was |-> [logon |-> FALSE, uds |-> FALSE], sent |-> {},
               app_since |-> FALSE, calls |-> 0]
    /\ UNCHANGED << limiter, client, rest, ws >>

\* the application is in a call that sent its request; the call returns at
\* once when send_api_req gave an Err
waits(a, at) == IF a.last.ok THEN [a EXCEPT !.app = at, !.n = 0] ELSE a

\* the application calls session_logon: the request is sent and the flag
\* polled
AppLogonCall ==
    /\ api.pc = "open"
    /\ api.app = "idle"
    /\ api.calls < MaxApiCalls
    /\ api' = waits(AppCalls(send_api_req(api, Logon)), "logon_wait")
    /\ UNCHANGED << limiter, client, rest, ws >>

\* session_logon: while !logon_flag { sleep; n += 1 }: the call returns when
\* the flag is set, and k turns of the loop are taken otherwise
AppLogonPoll(k) ==
    /\ api.pc = "open"
    /\ api.app = "logon_wait"
    /\ ~api.logon_flag => api.n < MaxPolls
    /\ api' = IF api.logon_flag
              THEN [api EXCEPT !.app = "idle"]
              ELSE [api EXCEPT !.n = @ + k, !.slept = poll_sleep(api.n + k - 1)]
    /\ UNCHANGED << limiter, client, rest, ws >>

\* the application calls user_data_stream_subscribe: the request is sent and
\* the flag polled
AppSubscribeCall ==
    /\ api.pc = "open"
    /\ api.app = "idle"
    /\ api.calls < MaxApiCalls
    /\ api' = waits(AppCalls(send_api_req(api, UdsSubscribe)), "uds_wait")
    /\ UNCHANGED << limiter, client, rest, ws >>

\* user_data_stream_subscribe: while !uds_subscribed: the call returns when
\* the flag is set; otherwise k turns are taken, session_status being sent
\* after the sleep of each.  Several turns are taken in one step only while
\* the connection is down, when their requests reach no server
AppSubscribePoll(k) ==
    /\ api.pc = "open"
    /\ api.app = "uds_wait"
    /\ ~api.uds_subscribed => api.n < MaxPolls /\ (k > 1 => ~api.up)
    /\ api' = IF api.uds_subscribed
              THEN [api EXCEPT !.app = "idle"]
              ELSE [polled(api, k) EXCEPT !.n = @ + k, !.slept = poll_sleep(api.n + k - 1)]
    /\ UNCHANGED << limiter, client, rest, ws >>

\* the application calls user_data_stream_unsubscribe: the request is sent
\* and the flag cleared
AppUnsubscribe ==
    /\ api.pc = "open"
    /\ api.app = "idle"
    /\ api.calls < MaxApiCalls
    /\ LET a == AppCalls(send_api_req(api, UdsUnsubscribe))
       IN api' = IF a.last.ok THEN [a EXCEPT !.uds_subscribed = FALSE] ELSE a
    /\ UNCHANGED << limiter, client, rest, ws >>

\* the application calls session_status
AppStatus ==
    /\ api.pc = "open"
    /\ api.app = "idle"
    /\ api.calls < MaxApiCalls
    /\ api' = AppCalls(send_api_req(api, Status))
    /\ UNCHANGED << limiter, client, rest, ws >>

\* the server serves the oldest request of the connection and replies
ServerServe ==
    /\ api.pc = "open"
    /\ api.up
    /\ api.inbox # << >>
    /\ api' = [api EXCEPT !.inbox = Tail(@),
                          !.server = served(@, Head(api.inbox).method),
                          !.outbox = Append(@, reply(api.server, Head(api.inbox).method))]
    /\ UNCHANGED << limiter, client, rest, ws >>

\* read_from_channel: ws_reader.next() gives a text frame, handle_msg stores
\* the flags of a LogonInfo and forwards the reply to data_sender
ApiHandleMsg ==
    /\ api.pc = "open"
    /\ api.rd = "reading"
    /\ api.up
    /\ api.outbox # << >>
    /\ api' = [flags_stored(api, Head(api.outbox)) EXCEPT !.outbox = Tail(@)]
    /\ UNCHANGED << limiter, client, rest, ws >>

\* the server or the network ends the connection: what was in flight is
\* lost.  `was` keeps the flags as they are at the disconnect, and
\* `app_since` tells that the application has called the session since
ApiDrop ==
    /\ api.pc = "open"
    /\ api.up
    /\ api.conns < MaxConns
    /\ api' = [api EXCEPT !.up = FALSE, !.inbox = << >>, !.outbox = << >>,
                          !.was = [logon |-> api.logon_flag, uds |-> api.uds_subscribed],
                          !.app_since = FALSE]
    /\ UNCHANGED << limiter, client, rest, ws >>

\* read_from_channel: ws_reader.next() gives an error or a Close frame and the
\* inner loop is left; replace_inner_stream is entered
ApiBreak ==
    /\ api.pc = "open"
    /\ api.rd = "reading"
    /\ ~api.up
    /\ api' = [api EXCEPT !.rd = "replace"]
    /\ UNCHANGED << limiter, client, rest, ws >>

\* replace_inner_stream returns with the new connection in place (the path
\* of a socket-API session has no writer, its guards are not waited for)
ApiReplace ==
    /\ api.pc = "open"
    /\ api.rd = "replace"
    /\ api' = [api EXCEPT !.rd = "relogon", !.up = TRUE, !.conns = @ + 1,
                          !.server = FreshServer, !.sent = {}]
    /\ UNCHANGED << limiter, client, rest, ws >>

\* if logon_flag { let _ = self.session_logon().await }: the request is sent
\* and while !logon_flag is left at once, the flag being set
ApiRelogon ==
    /\ api.pc = "open"
    /\ api.rd = "relogon"
    /\ api' = IF api.logon_flag
              THEN [resent(api, Logon) EXCEPT !.rd = "resubscribe"]
              ELSE [api EXCEPT !.rd = "resubscribe"]
    /\ UNCHANGED << limiter, client, rest, ws >>

\* if uds_subscribed { let _ = self.user_data_stream_subscribe().await }: the
\* request is sent and the flag polled
ApiResubscribe ==
    /\ api.pc = "open"
    /\ api.rd = "resubscribe"
    /\ api' = IF ~api.uds_subscribed
              THEN [api EXCEPT !.rd = "reading"]
              ELSE IF resent(api, UdsSubscribe).last.ok
                   THEN [resent(api, UdsSubscribe) EXCEPT !.rd = "uds_wait", !.polls = 0]
                   ELSE [resent(api, UdsSubscribe) EXCEPT !.rd = "reading"]
    /\ UNCHANGED << limiter, client, rest, ws >>

\* user_data_stream_subscribe run by the reader: one turn of
\* while !uds_subscribed; the reader reads again when the loop ends
ApiResubscribePoll ==
    /\ api.pc = "open"
    /\ api.rd = "uds_wait"
    /\ ~api.uds_subscribed => api.polls < MaxPolls
    /\ api' = IF api.uds_subscribed
              THEN [api EXCEPT !.rd = "reading"]
              ELSE [resent(api, Status) EXCEPT !.polls = @ + 1]
    /\ UNCHANGED << limiter, client, rest, ws >>

ApiNext ==
    \/ \E api_sec_key \in Keys : ApiNew(api_sec_key)
    \/ AppLogonCall
    \/ \E k \in TurnSteps : AppLogonPoll(k)
    \/ AppSubscribeCall
    \/ \E k \in TurnSteps : AppSubscribePoll(k)
    \/ AppUnsubscribe
    \/ AppStatus
    \/ ServerServe
    \/ ApiHandleMsg
    \/ ApiDrop
    \/ ApiBreak
    \/ ApiReplace
    \/ ApiRelogon
    \/ ApiResubscribe
    \/ ApiResubscribePoll

ApiInit == InitAt(RestStartTimes) /\ Quiet

ApiSpec == ApiInit /\ [][ApiNext]_vars

(* ---------------------------------------------------------------------- *)
(* Properties                                                              *)
(* ---------------------------------------------------------------------- *)

\* the three dimensions set_permits reconciles
Reported == {"weight", "order_sec10", "order_day1"}

\* the dimensions whose remain the last step changed, when that step was a
\* caller's critical section
Changed == {d \in Dims : inner[d].remain # ret.entry[d].remain}

\* C1: outside the write lock every dimension satisfies 0 <= remain <= limit,
\* whatever acquire_permits, set_permits, update and the tick resets did
C1_RemainWithinLimit ==
    \A d \in Dims : 0 <= inner[d].remain /\ inner[d].remain <= inner[d].limit

\* C2: a critical section of acquire_permits for an Order(n) or Both(n) cost
\* either returns having decremented weight, order_sec10 and order_day1
\* together, or is refused and decrements nothing
C2_AllOrNothing ==
    (ret.op = "acquire_permits" /\ ret.arg.order_flag) =>
        \/ ret.next = "idle" /\ Reported \subseteq Changed
        \/ ret.next = "acq_yield" /\ Changed = {}

\* C2's case: an order-placing call is refused on the 10-second order count
\* while the weight it asks for is there
C2_RefusedOnOrderCount ==
    /\ ret.op = "acquire_permits"
    /\ ret.arg.order_flag
    /\ ret.next = "acq_yield"
    /\ ret.entry.weight.remain >= ret.arg.n
    /\ ret.entry.raw_requests.remain >= 1
    /\ ret.entry.order_sec10.remain = 0

\* C3: set_permits leaves the remain of each of weight, order_sec10 and
\* order_day1 unchanged when the response's instant is not after that
\* dimension's reset_datetime
C3_LateResponseIgnored ==
    ret.op = "set_permits" =>
        \A d \in Reported :
            ~(ret.entry[d].reset_datetime < ret.arg.response_date) =>
                inner[d].remain = ret.entry[d].remain

\* C3's case: a response dated before the tick's reset of the weight reports
\* more usage than is tracked locally, and set_permits has run
C3_LateResponseAfterTickReset ==
    /\ ret.op = "set_permits"
    /\ ticks > 0
    /\ ret.entry.weight.reset_datetime = tick_at
    /\ ret.arg.response_date <= ret.entry.weight.reset_datetime
    /\ ret.arg.weight # None
    /\ Unwrap(ret.arg.weight) > ret.entry.weight.limit - ret.entry.weight.remain

\* C4: once an iteration of the tick loop is over, every dimension whose
\* window ends at the boundary it fired at (order_sec10 at every 10 seconds,
\* weight at every whole minute, raw_requests at every fifth minute,
\* order_day1 at 00:00:00) was reset by it, and no other dimension was
C4_TickResetsEveryElapsedWindow ==
    LET h == hour(tick_at)
        m == minute(tick_at)
        s == second(tick_at)
        Due == {"order_sec10"}
               \cup (IF s = 0 THEN {"weight"} ELSE {})
               \cup (IF s = 0 /\ m % 5 = 0 THEN {"raw_requests"} ELSE {})
               \cup (IF s = 0 /\ m = 0 /\ h = 0 THEN {"order_day1"} ELSE {})
    IN (ticks > 0 /\ pc[TickTask] = "tick_wait") =>
           \A d \in Dims : (d \in Due) <=> (inner[d].reset_datetime = tick_at)

\* C5: a pending acquire_permits(Weight(n)) that finds less than n weight
\* stays short of it until the weight dimension is reset: no other step
\* raises the weight's remain to n
C5_BlockedUntilWeightReset ==
    [][ \A t \in Callers :
            ( /\ pc[t] \in Pending
              /\ ~arg[t].order_flag
              /\ inner.weight.remain < arg[t].n
              /\ inner'.weight.remain >= arg[t].n )
            => inner'.weight.reset_datetime # inner.weight.reset_datetime ]_vars

\* C6: set_permits with a response after a dimension's reset sets that
\* dimension's remain to limit - max(limit - remain, observed) when a usage is
\* reported for it, and leaves it unchanged when none is
C6_ReconcileFormula ==
    ret.op = "set_permits" =>
        \A d \in Reported :
            LET old == ret.entry[d]
            IN IF ret.arg[d] = None
               THEN inner[d].remain = old.remain
               ELSE old.reset_datetime < ret.arg.response_date =>
                        inner[d].remain =
                            old.limit - Max(old.limit - old.remain, Unwrap(ret.arg[d]))

C8_ConsumptionPerTag ==
    (ret.op = "acquire_permits" /\ ret.next = "idle") =>
        /\ inner.weight.remain = ret.entry.weight.remain - ret.arg.n
        /\ \A d \in {"order_sec10", "order_day1"} :
               inner[d].remain = ret.entry[d].remain - (IF ret.arg.order_flag THEN 1 ELSE 0)

\* C8's case: an order-placing call returns after a Weight(n) call has
C8_OrderAfterWeightServed ==
    /\ ret.op = "acquire_permits"
    /\ ret.next = "idle"
    /\ ret.arg.order_flag
    /\ ret.entry.weight.remain < ret.entry.weight.limit
    /\ ret.entry.order_day1.remain = ret.entry.order_day1.limit

\* the cost of t's call does not exceed the limits of the dimensions it takes
\* from
Fits(t) ==
    /\ arg[t].n <= inner.weight.limit
    /\ 1 <= inner.raw_requests.limit
    /\ arg[t].order_flag => (1 <= inner.order_sec10.limit /\ 1 <= inner.order_day1.limit)

\* C9: no critical section of acquire_permits ends in a failure, and a single
\* pending call whose cost fits the limits returns, the ticker and the
\* waiting task being scheduled for ever
C9_PendingCallerReturns ==
    /\ [](ret.op = "acquire_permits" => ret.next # "panicked")
    /\ \A t \in Waiters :
           (pc[t] \in Pending /\ Fits(t))
               ~> (pc[t] = "idle" \/ (pc[t] \in Pending /\ ~Fits(t)))

\* C9's case: a call that had to wait has returned
C9_ReturnedAfterWaiting ==
    /\ ret.op = "acquire_permits"
    /\ ret.t \in Waiters
    /\ ret.arg.yielded
    /\ ret.next = "idle"

\* C10: no critical section of acquire_permits or set_permits runs between
\* two of the resets one tick performs
C10_ResetsAtomic ==
    ret.op \in {"acquire_permits", "set_permits"} =>
        ~(pc[TickTask] = "reset" /\ Len(queue) < Len(PlanAt(tick_at)))

\* C12: update(exchange_info) sets the limit of every dimension the exchange
\* info advertises to the advertised value, leaves the limit of the others as
\* it was, and changes no reset_datetime
C12_UpdateReplacesAdvertised ==
    ret.op = "update" =>
        \A d \in Dims :
            /\ inner[d].limit = IF ret.arg.limits[d] = None
                                 THEN ret.entry[d].limit
                                 ELSE Unwrap(ret.arg.limits[d])
            /\ inner[d].reset_datetime = ret.entry[d].reset_datetime

\* update has run after a tick reset, with a dimension advertised at another
\* value than its limit and a dimension not advertised
C12_UpdatedAfterReset ==
    /\ ret.op = "update"
    /\ ticks > 0
    /\ \E d \in Dims : ret.entry[d].reset_datetime # ret.entry.order_day1.reset_datetime
    /\ \E d \in Dims : ret.arg.limits[d] # None /\ Unwrap(ret.arg.limits[d]) # ret.entry[d].limit
    /\ \E d \in Dims : ret.arg.limits[d] = None

\* C13: once the application has dropped the client, the background reset
\* task started by new() ends
C13_TickTaskEndsAfterDrop == (client = "dropped") ~> (pc[TickTask] = "ended")

\* C14: a call of acquire_permits that is at a suspension point has consumed
\* nothing (the iteration that left it there changed no remain), and
\* cancelling it there changes no remain
C14_CancelledConsumedNothing ==
    /\ (ret.op = "acquire_permits" /\ ret.next \in Pending) => Changed = {}
    /\ ret.op = "cancel" => Changed = {}

\* a call is cancelled after it was refused and has yielded, while another
\* caller's consumption is in the counters
C14_CancelledAfterWaiting ==
    /\ ret.op = "cancel"
    /\ ret.arg.yielded
    /\ inner.weight.remain < inner.weight.limit

\* the positions of the log of the call of rest_req at which it did `ev`
Did(ev) == IF rest.pc = "none" THEN {} ELSE { i \in DOMAIN rest.log : rest.log[i].ev = ev }

\* the call of rest_req has returned
Returned == rest.pc = "done"

\* acquire_permits completed for the declared cost before the first send
AcquiredFirst ==
    /\ rest.log[1].ev = "acquired"
    /\ rest.log[1].arg.n = rest.rate_limit.n
    /\ rest.log[1].arg.order_flag = (rest.rate_limit.kind \in { "Order", "Both" })

\* when the call has returned, every response it received was followed by
\* set_permits with the headers of that response
ResponsesReconciled ==
    Returned =>
        \A i \in Did("response") :
            \E j \in Did("set_permits") : j > i /\ rest.log[j].head = rest.log[i].head

\* C11 (as stated): every request rest_req sends was preceded by a completed
\* acquire_permits for its declared cost, and every response received is
\* followed by set_permits with its headers before rest_req returns
C11_EverySendAcquired ==
    /\ Did("send") # {} => AcquiredFirst
    /\ ResponsesReconciled

\* C11 (amended): every request rest_req sends for a path that starts with
\* /api was preceded by a completed acquire_permits for its declared cost, and
\* every response received, whatever the path, is followed by set_permits
\* with its headers before rest_req returns
C11_ApiSendAcquired ==
    /\ (Did("send") # {} /\ rest.path[1] = "api") => AcquiredFirst
    /\ ResponsesReconciled

\* a request for /api has returned a response after its acquire_permits had
\* to wait and after a failed attempt
C11_SentAfterWaiting ==
    /\ Returned
    /\ rest.path[1] = "api"
    /\ rest.log[1].ev = "acquired" /\ rest.log[1].arg.yielded
    /\ Did("failed") # {}
    /\ Did("set_permits") # {}

\* C15: rest_req retries only connect and timeout errors, one second apart:
\* an attempt is followed by another only if it failed with such an error, at
\* most 6 attempts are made, ConnectError is returned exactly when 6 attempts
\* failed that way, and any other error is returned as RequestError at once
C15_RetriesOnlyTransportFailures ==
    rest.pc # "none" =>
        /\ Cardinality(Did("send")) <= 6
        /\ \A i \in Did("send") :
               (\E j \in Did("send") : j > i) =>
                   rest.log[i + 1].ev = "failed" /\ rest.log[i + 1].transport
        /\ \A k \in DOMAIN rest.delays : rest.delays[k] = 1
        /\ Returned =>
               /\ Did("send") # {} => Len(rest.delays) = Cardinality(Did("send")) - 1
               /\ rest.result.kind = "ConnectError" <=>
                      /\ Cardinality(Did("send")) = 6
                      /\ Cardinality(Did("failed")) = 6
                      /\ \A i \in Did("failed") : rest.log[i].transport
               /\ rest.result.kind = "RequestError" <=>
                      \E i \in Did("failed") : ~rest.log[i].transport

\* a call has returned ConnectError
C15_GaveUpConnecting == Returned /\ rest.result.kind = "ConnectError"

\* C16 (as stated): a call that returns ServerError has retried after a 5xx
\* response
C16_ServerErrorAfterRetries ==
    (Returned /\ rest.result.kind = "ServerError") =>
        \E i \in Did("response"), j \in Did("send") : rest.log[i].status >= 500 /\ j > i

\* C16 (amended): a 5xx response is not retried: the call that receives it
\* makes no further attempt and returns ServerError
C16_ServerErrorNotRetried ==
    /\ \A i \in Did("response"), j \in Did("send") : j < i
    /\ Returned =>
           (rest.result.kind = "ServerError" <=>
               \E i \in Did("response") : rest.log[i].status >= 500)

\* a call has returned ServerError after a failed attempt
C16_ServerErrorReturned ==
    Returned /\ rest.result.kind = "ServerError" /\ Did("failed") # {}

\* the outcome the mapping gives for a status and a body; "none" where it
\* names none
StatedOutcome(status, body, other) ==
    IF status < 300 THEN Carrying("Ok", body)
    ELSE IF status >= 500 THEN Carrying("ServerError", body)
    ELSE IF status = 403 THEN Plain("Waf")
    ELSE IF status = 418 THEN Plain("Blocked")
    ELSE IF status = 429 THEN Plain("WafWarning")
    ELSE IF status = 400 /\ body.kind = "object" /\ body.code # None /\ body.msg # None
         THEN Outcome("BadRequest", body.code, body.msg, None)
    ELSE IF status >= 400 THEN Carrying("ClientError", body)
    ELSE other

\* C17 (as stated): the outcome of a response is the one the mapping names for
\* its status: success below 300, BadRequest(code, msg) for 400 with a
\* {code, msg} body, Waf for 403, Blocked for 418, WafWarning for 429,
\* ClientError with the body for every other 4xx, ServerError for 5xx
C17_StatusMapping ==
    (Returned /\ rest.resp # NoResp) =>
        rest.result = StatedOutcome(rest.resp.status, rest.resp.body, Plain("none"))

\* C17 (amended): as stated, and a 3xx status is Unknown with the body
C17_StatusMappingWith3xx ==
    (Returned /\ rest.resp # NoResp) =>
        rest.result = StatedOutcome(rest.resp.status, rest.resp.body,
                                    Carrying("Unknown", rest.resp.body))

\* a 400 whose body is an object without `code` has been returned as
\* ClientError
C17_UnstructuredBadRequest ==
    /\ Returned
    /\ rest.resp # NoResp
    /\ rest.resp.status = 400
    /\ rest.resp.body.kind = "object"
    /\ rest.result.kind = "ClientError"

\* C18: stream_subscribe and stream_unsubscribe change channel_path only when
\* the frame was sent: while a call is in progress the set is the one it was
\* called with, after a call whose send failed it is still that set, and
\* after a call whose send succeeded it is that set with the contents added
\* (subscribe) or removed (unsubscribe)
C18_PathFollowsSentFrames ==
    ws.pc # "none" =>
        /\ ws.sub.pc # "idle" => ws.channel_path = ws.sub.before
        /\ (ws.sub.pc = "idle" /\ ws.last.op # "none") =>
               ws.channel_path = IF ~ws.last.ok THEN ws.last.before
                                 ELSE IF ws.last.op = "subscribe"
                                      THEN ws.last.before \cup ws.last.contents
                                      ELSE ws.last.before \ ws.last.contents

\* a subscribe of streams not in the set has returned after its send failed,
\* on a session that has sent a frame before
C18_SubscribeFailed ==
    /\ ws.pc # "none"
    /\ ws.sub.pc = "idle"
    /\ ws.last.op = "subscribe"
    /\ ~ws.last.ok
    /\ ~(ws.last.contents \subseteq ws.last.before)
    /\ ws.last.before # {}
    /\ ws.subs > 1

\* the stream names a url asks the transport for
streams_of(url) ==
    IF Len(url) >= 2 /\ url[2] = "/stream?streams="
    THEN { url[i] : i \in { j \in 3..Len(url) : url[j] # "/" } }
    ELSE {}

\* the positions of replace_inner_stream from its first connection attempt to
\* the last
Connecting == { "connect", "retry_log", "sleep" }

\* C19: a reconnection asks the transport for exactly the streams of
\* channel_path: the url of every connection attempt of replace_inner_stream
\* names the streams the set holds, neither more nor fewer, and the url of the
\* connection made is the one of the attempts
C19_ReconnectAsksForPath ==
    ws.pc = "open" =>
        /\ ws.rd.pc \in Connecting => streams_of(ws.rd.url) = ws.channel_path
        /\ ws.rd.pc = "swap_writer" =>
               /\ ws.conns[Len(ws.conns)] = ws.rd.url
               /\ streams_of(ws.rd.url) = ws.channel_path

\* a reconnection succeeds at its second attempt, for a set of two or more
\* streams that a subscribe call has extended, while a call waits to change
\* the set
C19_ReconnectedAfterSubscribe ==
    /\ ws.pc = "open"
    /\ ws.rd.pc = "swap_writer"
    /\ ws.rd.attempts > 0
    /\ Cardinality(ws.channel_path) >= 2
    /\ ws.last.op = "subscribe" /\ ws.last.ok
    /\ ws.sub.pc = "lock_path"

\* a reconnection of a session that had both flags set has come to rest: the
\* reader reads again, the connection is alive, every request has been served
\* and every reply handled, and the application has called nothing since
Replayed ==
    /\ api.pc = "open"
    /\ api.conns > 1
    /\ api.was.logon /\ api.was.uds
    /\ ~api.app_since
    /\ api.app = "idle"
    /\ api.rd = "reading"
    /\ api.up
    /\ api.inbox = << >> /\ api.outbox = << >>

\* C20: when logon_flag and uds_subscribed were both true before the
\* disconnect, the session sends session.logon and userDataStream.subscribe
\* again after the reconnection, and both flags are true once the server's
\* replies have been handled
C20_HandshakeReplayed ==
    Replayed =>
        /\ { Logon, UdsSubscribe } \subseteq api.sent
        /\ api.logon_flag
        /\ api.uds_subscribed

\* C30: in every state of a session the reader half and the writer half
\* belong to the same connection, so that a frame is sent on no connection
\* but the one being read
C30_HalvesOfOneConnection == ws.pc = "open" => ws.reader_conn = ws.writer_conn

\* the positions of the reader task between leaving a connection and the
\* success of connect_async
Leaving == { "warn", "lock_path", "connect", "retry_log", "sleep" }

\* the last thing the reader task was given came from the newest connection
ReadOnNewest == ws.read_on = Len(ws.conns)

\* C26: once the read loop has read a Close frame, with or without payload,
\* it leaves that connection and connects again; the frame is never ignored
\* and the task never ends on it
C26_CloseFrameReconnects ==
    ws.pc = "open" /\ ws.item.kind \in { "close_some", "close_none" } /\ ReadOnNewest
        => ws.rd.pc \in Leaving

\* C25: once ws_reader.next() has given a read error or the end of the
\* stream, the read loop discards that connection and (re)tries to connect
C25_ErrorOrEndReconnects ==
    ws.pc = "open" /\ ws.item.kind \in { "error", "end" } /\ ReadOnNewest
        => ws.rd.pc \in Leaving

RECURSIVE Decoded(_)
\* the responses of the text frames of `texts` that decode, in their order
Decoded(texts) ==
    IF texts = << >> THEN << >>
    ELSE IF Head(texts) \in { "aggTrade:1", "aggTrade:2" }
         THEN << << "WsResponse", Head(texts) >> >> \o Decoded(Tail(texts))
         ELSE Decoded(Tail(texts))

\* s is the beginning of t
IsPrefix(s, t) == Len(s) <= Len(t) /\ SubSeq(t, 1, Len(s)) = s

\* C27: a text frame that does not decode neither ends the read loop nor
\* makes it reconnect, and the data channel is given exactly the text frames
\* that decode, those after an undecodable one included, in the order read
\* (all of them while the receiver is there)
C27_UndecodableTextSkipped ==
    ws.pc = "open" =>
        /\ IsPrefix(ws.delivered, Decoded(ws.texts))
        /\ ~ws.data_closed => ws.delivered = Decoded(ws.texts)
        /\ ws.item = Item("text", "garbage") =>
               /\ ws.rd.pc \in { "reading", "returned" }
               /\ ws.rd.pc = "returned" => ws.data_closed
               /\ ws.reader_conn = ws.read_on

\* a frame that decodes was read after one that does not, and forwarded
C27_ForwardedAfterGarbage ==
    /\ ws.pc = "open"
    /\ Len(ws.texts) = 2
    /\ ws.texts[1] = "garbage"
    /\ ws.delivered = << << "WsResponse", ws.texts[2] >> >>
    /\ Len(ws.conns) = 1

\* C28: a Ping that was read is answered, before the next thing is read from
\* the connection, by a Pong with the payload of the Ping written to the
\* half of the connection the Ping came from
C28_PingAnswered ==
    ws.pc = "open" /\ ws.item.kind = "ping" /\ ws.rd.pc # "pong"
        => /\ ws.pong.data = ws.item.data
           /\ ws.pong.conn = ws.read_on
           /\ ws.pong.sent \/ ~ws.up \/ Len(ws.conns) > ws.read_on

\* a Ping was read and its Pong sent on the live connection, after a
\* reconnection
C28_PongSent ==
    /\ ws.pc = "open"
    /\ ws.item = Item("ping", "ping-2")
    /\ ws.pong = [data |-> "ping-2", conn |-> 2, sent |-> TRUE]
    /\ ws.rd.pc = "reading"

\* both background tasks of session w have terminated
Closed(w) == w.rd.pc \in Stopped /\ w.cl.pc \in Stopped

\* the state of session w: Connected while the read loop is on a connection,
\* Reconnecting from the moment it leaves one until the next is in place,
\* Stopping while one task has finished and the other is not yet cancelled
State(w) ==
    CASE Closed(w) -> "Closed"
      [] w.rd.pc \in Stopped \/ w.cl.pc \in Stopped -> "Stopping"
      [] w.rd.pc \in { "reading", "pong" } -> "Connected"
      [] OTHER -> "Reconnecting"

\* the states a session in state st may be in after one more step
After(st) ==
    CASE st = "Connected" -> { "Connected", "Reconnecting", "Stopping" }
      [] st = "Reconnecting" -> { "Reconnecting", "Connected", "Stopping" }
      [] st = "Stopping" -> { "Stopping", "Closed" }
      [] OTHER -> { "Closed" }

\* the steps of a session: Closed is left by none and makes no connection,
\* and the other states follow each other as in After
SessionSteps ==
    ws.pc = "open" =>
        /\ State(ws') \in After(State(ws))
        /\ Closed(ws) => ws'.conns = ws.conns /\ ws'.rd = ws.rd /\ ws'.cl = ws.cl

C24_HandleCompletesOnClosedSession ==
    ws.pc = "open" /\ ws.sv = "done" => Closed(ws) /\ ~ws.up

\* the connections a session may go through
ConnIds == 1 .. (MaxConns + MaxCloses)

\* C22: once close(true) has been sent to a running session, both background
\* tasks terminate, whatever the session is doing
C22_ForcefulCloseTerminates ==
    (ws.pc = "open" /\ ws.forced) ~> (ws.pc = "open" /\ Closed(ws))

\* C23: after close(false) has closed the live connection, the read loop is
\* on a newer connection in the end, unless the session is being closed
C23_BounceReconnects ==
    \A n \in ConnIds :
        (ws.pc = "open" /\ ws.bounced = n /\ Len(ws.conns) = n)
            ~> \/ ws.pc = "open" /\ Len(ws.conns) > n /\ State(ws) = "Connected"
               \/ ws.pc = "open" /\ State(ws) \in { "Stopping", "Closed" }

\* C29: once the application has dropped the receiver of the data channel,
\* the read loop exits, the close-signal task is cancelled and the
\* JoinHandle of the session completes
C29_DroppedReceiverEndsSession ==
    (ws.pc = "open" /\ ws.data_closed)
        ~> (ws.pc = "open" /\ Closed(ws) /\ ws.sv = "done")

\* the positions of the reader task inside replace_inner_stream
Replacing == { "lock_path", "connect", "retry_log", "sleep", "swap_writer", "success_log" }

\* C37: a call of stream_subscribe or stream_unsubscribe made while the
\* session reconnects returns, and replace_inner_stream returns too, under
\* every interleaving of the two
C37_CallAndReconnectComplete ==
    /\ (ws.pc = "open" /\ ws.sub.pc # "idle") ~> (ws.pc = "open" /\ ws.sub.pc = "idle")
    /\ (ws.pc = "open" /\ ws.rd.pc \in Replacing) ~> (ws.pc = "open" /\ ws.rd.pc = "reading")


\* C35: a call of set_permits leaves every dimension's remain at or below
\* the value it had when the call took the write lock
C35_SetPermitsNeverRaises ==
    ret.op = "set_permits" =>
        \A d \in Dims : inner[d].remain <= ret.entry[d].remain

\* C36: a call of rest_req whose method is none of get, post, put, delete
\* (it returns MethodError) changes no rate-limit counter: no critical
\* section of its acquire_permits alters a remain
C36_MethodErrorLeavesCounters ==
    ( /\ rest.pc \in { "acquire", "send" }
      /\ ~method_ok(rest.method)
      /\ ret.op = "acquire_permits" ) => Changed = {}

\* C39: while a connection is installed, logon_flag is true only if that
\* connection is logged on and uds_subscribed is true only if that connection
\* is subscribed to the user data stream; in particular a flag set on the
\* connection before a reconnect is not true on the new one until the new
\* one is confirmed
C39_FlagsDescribeConnection ==
    (api.pc = "open" /\ api.up) =>
        /\ api.logon_flag => api.server.authorized
        /\ api.uds_subscribed => api.server.uds

\* C40: the reader never waits in the loop of user_data_stream_subscribe
\* with uds_subscribed false: the flag is set by handle_msg alone, which the
\* reader runs only when it reads again
C40_ReaderNeverWaitsForItself ==
    (api.pc = "open" /\ api.rd = "uds_wait") => api.uds_subscribed

\* C31: session_logon and user_data_stream_subscribe send their request
\* when called, and a call that waits returns only in a step that finds its
\* flag true; while the flag is false the call stays in its loop, where the
\* turn numbered n (from 0) sleeps 100 ms when n < 100 and 10 s afterwards
C31_ReturnsOnceFlagSet ==
    [][ (api.pc = "open" /\ api'.pc = "open") =>
          /\ (api.app = "idle" /\ api'.app = "logon_wait") =>
                 /\ api'.last.method = Logon /\ api'.last.ok
                 /\ api.up => api'.inbox = Append(api.inbox, [id |-> api'.last.id, method |-> Logon])
          /\ (api.app = "idle" /\ api'.app = "uds_wait") =>
                 /\ api'.last.method = UdsSubscribe /\ api'.last.ok
                 /\ api.up => api'.inbox = Append(api.inbox, [id |-> api'.last.id, method |-> UdsSubscribe])
          /\ (api.app = "logon_wait" /\ api'.app # "logon_wait") =>
                 api.logon_flag /\ api'.app = "idle"
          /\ (api.app = "uds_wait" /\ api'.app # "uds_wait") =>
                 api.uds_subscribed /\ api'.app = "idle"
          /\ (api.rd = "uds_wait" /\ api'.rd # "uds_wait") =>
                 api.uds_subscribed /\ api'.rd = "reading"
          /\ (api.app = api'.app /\ api'.n > api.n) =>
                 api'.slept = IF api'.n - 1 < 100 THEN 100 ELSE 10 * SecMs ]_vars

\* session_logon, the only call the application has made, has returned
\* after more than a hundred turns of its loop, the last of which slept 10 s
C31_LogonReturnedAfterLongSleep ==
    /\ api.pc = "open"
    /\ api.calls = 1
    /\ api.app = "idle"
    /\ api.logon_flag
    /\ api.n > LongAfter
    /\ api.slept = long_dur

\* C32: send_api_req on a client whose key is empty returns ApiKeyError and
\* writes no frame; on any other client it returns Ok(id) with an id that no
\* earlier request of the session had, and the frame it writes carries that
\* id and the method
C32_KeyCheckedAndIdFresh ==
    [][ (api.pc = "open" /\ api'.pc = "open" /\ api'.last # api.last) =>
          IF api.api_sec_key = NoKey
          THEN /\ ~api'.last.ok /\ api'.last.err = Some("ApiKeyError")
               /\ api'.last.frame = None
               /\ api'.inbox = api.inbox /\ api'.inbox = << >>
          ELSE /\ api'.last.ok
               /\ api'.last.id \notin api.ids
               /\ api'.last.frame # None =>
                      /\ Unwrap(api'.last.frame) = [id |-> api'.last.id, method |-> api'.last.method]
                      /\ api'.inbox # << >>
                      /\ api'.inbox[Len(api'.inbox)] = Unwrap(api'.last.frame) ]_vars

\* a client made without a key was asked to log on: the call returned
\* ApiKeyError, nothing was written and the application waits for no flag
C32_RefusedWithoutKey ==
    /\ api.pc = "open"
    /\ is_api_empty(api.api_sec_key)
    /\ api.last.method = Logon
    /\ api.last.err = Some("ApiKeyError")
    /\ api.calls > 0
    /\ api.app = "idle"
    /\ api.inbox = << >>

\* the number of stream names in a url made by ws_url
names_in(url) == Cardinality({ i \in 3..Len(url) : url[i] # "/" })

\* C33: opening a market session with more than 1024 names fails with
\* TooManySubscribes(count), no connection being asked for and no task
\* spawned; with 1024 names or fewer the session is opened on the url of the
\* names and its tasks run
C33_OversizedOpenRefused ==
    [][ (ws.pc = "none" /\ ws'.pc # "none") =>
          IF Cardinality(ws'.channel_path) > 1024
          THEN /\ ws'.pc = "refused"
               /\ ws'.err = << "TooManySubscribes", Cardinality(ws'.channel_path) >>
               /\ ws'.conns = << >>
               /\ ws'.rd.pc = "none" /\ ws'.cl.pc = "none" /\ ws'.sv = "none"
          ELSE /\ ws'.pc = "open"
               /\ Len(ws'.conns) = 1
               /\ names_in(ws'.conns[1]) = Cardinality(ws'.channel_path)
               /\ ws'.rd.pc = "reading" ]_vars

\* a session was asked for with 1025 names and refused
C33_RefusedAt1025 ==
    /\ ws.pc = "refused"
    /\ ws.err = << "TooManySubscribes", 1025 >>
    /\ Cardinality(ws.channel_path) = 1025

\* C38: the set of an open session never holds more than 1024 names, and
\* every url a reconnection asks for names 1024 streams at most
C38_SetWithinLimit ==
    ws.pc = "open" =>
        /\ Cardinality(ws.channel_path) <= MaxStreams
        /\ ws.rd.pc \in Connecting => names_in(ws.rd.url) <= MaxStreams

\* the arguments break the rule of their order type: LIMIT needs
\* time_in_force, qty and price; MARKET needs qty or quote_order_qty and no
\* time_in_force; the stop orders need qty and stop_price, and their limit
\* variants time_in_force and price too; LIMIT_MAKER needs qty and price
BreaksRule(a) ==
    LET given(x) == x # None
        tif == given(a.time_in_force)
        qty == given(a.qty)
        price == given(a.price)
        stop == given(a.stop_price)
    IN \/ a.order_type \in { "LIMIT", "limit" } /\ ~(tif /\ qty /\ price)
       \/ a.order_type = "MARKET" /\ (tif \/ ~(qty \/ given(a.quote_order_qty)))
       \/ a.order_type \in { "STOPLOSS", "TAKEPROFIT" } /\ ~(qty /\ stop)
       \/ a.order_type \in { "STOPLOSSLIMIT", "TAKEPROFITLIMIT" }
              /\ ~(tif /\ qty /\ price /\ stop)
       \/ a.order_type = "LIMITMAKER" /\ ~(qty /\ price)

\* C34: a call of order whose arguments break the rule of their order type
\* returns ArgumentError in the step of the call: no permit is asked for or
\* taken, rest_req is not entered and nothing is sent
C34_BadOrderRefusedFirst ==
    [][ (OrderCount' > OrderCount /\ BreaksRule(rest'.order.args)) =>
          /\ rest'.order.pc = "returned"
          /\ rest'.order.result = "ArgumentError"
          /\ rest'.pc = "unused" /\ rest'.log = << >>
          /\ inner' = inner /\ pc' = pc /\ calls' = calls /\ arg' = arg ]_vars

\* a MARKET order with a quantity and a time_in_force was refused, the
\* counters being those of a new client
C34_MarketWithTimeInForce ==
    /\ rest.pc = "unused"
    /\ rest.order.result = "ArgumentError"
    /\ rest.order.args.order_type = "MARKET"
    /\ rest.order.args.qty # None
    /\ rest.order.args.time_in_force = Some("gtc")
    /\ inner.order_sec10.remain = inner.order_sec10.limit

====
